---- MODULE Spec2Model ----
(***************************************************************************)
(* A model of the AIR Blackbox Gateway: the proxy request pipeline         *)
(* (pkg/proxy), the guardrails session store, detection and prevention     *)
(* (pkg/guardrails), the AIR recorder (pkg/recorder) and the audit chain   *)
(* (pkg/trust).                                                            *)
(*                                                                         *)
(* Strings that the code tokenises (prompts) are sequences of words; the   *)
(* wall clock is a counter of ticks of one minute; SHA-256 and    *)
(* HMAC are modelled as collision-free constructors over their inputs.     *)
(***************************************************************************)
EXTENDS Integers, Sequences, FiniteSets, TLC

(***************************************************************************)
(* Bounds of the model.                                                    *)
(***************************************************************************)
\* Requests admitted in one behaviour.
MaxRuns == 3
\* Handlers running at the same time.
MaxInflight == 1
MaxConcurrent == 2
\* Ticks of the wall clock.
MaxTicks == 1
\* Goroutines appending to the audit chain.
MaxAppenders == 3

\* The model's clock counts ticks of one minute.
Seconds(ticks) == ticks * 60

Runs == 1..MaxRuns

(***************************************************************************)
(* Request inputs.                                                         *)
(***************************************************************************)
\* A text is a sequence of tokens: its words, and " " for a run of white
\* space that stands alone (between two words a single space is implied).
\* The empty string is <<>>, a string of blanks is <<" ">>.  A prompt is
\* the text of the last user message.
PromptLoop == <<"please", "help", "me", "fix", "the", "authentication",
                "error", "in", "my", "code">>
PromptSSN == <<"My", "SSN", "is", "123-45-6789">>
PromptMail == <<"Contact", "me", "at", "alice@example.com">>
PromptNone == <<>>

\* The content of the last user message: a string, or an array of content
\* parts, each with a type and a text.
StringContent(text) == [kind |-> "string", text |-> text, parts |-> <<>>]
PartsContent(parts) == [kind |-> "parts", text |-> <<>>, parts |-> parts]
TextPart(text) == [Type |-> "text", Text |-> text]

Contents == {StringContent(PromptLoop), StringContent(PromptSSN),
             StringContent(PromptMail), StringContent(PromptNone),
             PartsContent(<<TextPart(PromptLoop), TextPart(PromptSSN)>>)}

\* An entry of the tools array: its type and its function.name, "" for an
\* entry without one.
Tool(name) == [Type |-> "function", Name |-> name]
BuiltinTool == [Type |-> "web_search", Name |-> ""]

ToolLists == {<<>>, <<Tool("search")>>, <<Tool("shell")>>,
              <<Tool("search"), Tool("shell")>>,
              <<Tool("search"), BuiltinTool>>,
              <<Tool("shell"), BuiltinTool>>}

\* Values a gateway-key header can carry; "" is an absent header.
GoodKey == "gw-secret"
KeyValues == {"", GoodKey, "wrong"}

\* X-Session-ID header values; "" is an absent header.
SessionHeaders == {"", "s1"}

(***************************************************************************)
(* Configuration (proxy.Config and guardrails.Config).  A nil pointer is   *)
(* FALSE, an empty URL is "".  The similarity threshold is in percent.     *)
(***************************************************************************)
DefaultTimeoutSeconds == 30

\* applyDefaults on approval.timeout_seconds
applyDefaults(timeoutSeconds) ==
    IF timeoutSeconds = 0 THEN DefaultTimeoutSeconds ELSE timeoutSeconds

ApprovalOff == [Enabled |-> FALSE, WebhookURL |-> "", Rules |-> {},
                TimeoutSeconds |-> applyDefaults(0), FallbackAllow |-> FALSE]
ToolsOff == [Enabled |-> FALSE, Allowlist |-> {}, Blocklist |-> {}]
ModelLimitsOff == [Enabled |-> FALSE, CostThresholdUSD |-> 0,
                   CostPerMToken |-> <<>>, DowngradeMap |-> <<>>]
PIIOff == [Enabled |-> FALSE, BlockSSN |-> FALSE, BlockCC |-> FALSE,
           BlockEmail |-> FALSE, BlockPhone |-> FALSE, RedactMode |-> "redact"]

\* A gateway without guardrails, as cmd/gateway builds it.
PlainConfig == [
    GatewayKey |-> "", Vault |-> FALSE, Recorder |-> TRUE,
    Guardrails |-> FALSE, Sessions |-> FALSE,
    Budgets |-> [MaxSessionTokens |-> 0],
    LoopDetection |-> [SimilarPromptThreshold |-> 0, MaxSimilarPrompts |-> 0,
                       WindowSeconds |-> 0],
    ToolProtection |-> [MaxRepeatCalls |-> 0, RepeatWindowSeconds |-> 0],
    RetryProtection |-> [MaxConsecutiveErrors |-> 0],
    Alerts |-> [WebhookURL |-> ""],
    Prevention |-> [PII |-> PIIOff, Tools |-> ToolsOff,
                   ModelLimits |-> ModelLimitsOff, Approval |-> ApprovalOff]]

\* The loop-detection scenario: threshold 0.80, three similar prompts, a
\* window of 60 seconds; three consecutive errors end a session.
GuardConfig == [PlainConfig EXCEPT
    !.Guardrails = TRUE, !.Sessions = TRUE, !.Recorder = FALSE,
    !.LoopDetection = [SimilarPromptThreshold |-> 80, MaxSimilarPrompts |-> 3,
                       WindowSeconds |-> 60],
    !.RetryProtection = [MaxConsecutiveErrors |-> 3]]

Rules == {"token_budget", "prompt_loop", "tool_retry_storm", "error_spiral"}

\* Deployments without guardrails: vault and recorder vary.
PlainConfigs ==
    {[PlainConfig EXCEPT !.Vault = v, !.Recorder = rec] :
        v \in BOOLEAN, rec \in BOOLEAN}

\* A deployment that requires a gateway key.
AuthConfigs == {[PlainConfig EXCEPT !.GatewayKey = GoodKey]}

\* Deployments with PII prevention and no session store: the patterns,
\* the mode and the alert webhook vary.
PIIConfigs ==
    {[GuardConfig EXCEPT
        !.Sessions = FALSE,
        !.Alerts = [WebhookURL |-> a],
        !.Prevention = [@ EXCEPT !.PII =
            [PIIOff EXCEPT !.Enabled = en, !.BlockSSN = ssn,
                           !.BlockEmail = mail, !.RedactMode = mode]]] :
        a \in {"", "http://alerts"},
        en \in BOOLEAN, ssn \in BOOLEAN, mail \in BOOLEAN,
        mode \in {"block", "redact"}}

\* The approval configurations: off, without a webhook, and with one.
Approvals ==
    {ApprovalOff,
     [ApprovalOff EXCEPT !.WebhookURL = "http://approve"],
     [ApprovalOff EXCEPT !.Enabled = TRUE]} \cup
    {[Enabled |-> TRUE, WebhookURL |-> "http://approve", Rules |-> rules,
      TimeoutSeconds |-> applyDefaults(1), FallbackAllow |-> fb] :
        rules \in {{}, {"prompt_loop"}, {"error_spiral"}}, fb \in BOOLEAN} \cup
    {[Enabled |-> TRUE, WebhookURL |-> "http://approve",
      Rules |-> {"prompt_loop"}, TimeoutSeconds |-> applyDefaults(0),
      FallbackAllow |-> TRUE]}

\* Deployments with detection: the approval configuration varies.
ApprovalConfigs ==
    {[GuardConfig EXCEPT
        !.Alerts = [WebhookURL |-> "http://alerts"],
        !.Prevention = [@ EXCEPT !.Approval = a]] : a \in Approvals}

\* The tool filters: an allowlist, a blocklist, neither.
ToolFilters ==
    {[ToolsOff EXCEPT !.Enabled = TRUE, !.Allowlist = {"search"}],
     [ToolsOff EXCEPT !.Enabled = TRUE, !.Blocklist = {"shell"}],
     [ToolsOff EXCEPT !.Enabled = TRUE]}

\* A model limit: gpt-4 becomes gpt-4o-mini once the session has cost 1 USD.
ModelLimits ==
    [Enabled |-> TRUE, CostThresholdUSD |-> 1,
     CostPerMToken |-> [m \in {"gpt-4"} |-> 30],
     DowngradeMap |-> [m \in {"gpt-4"} |-> "gpt-4o-mini"]]

\* Deployments with prevention and no session store: the tool filter and
\* the SSN redaction vary, or the model limit is on.
ToolConfigs ==
    {[GuardConfig EXCEPT
        !.Sessions = FALSE,
        !.Alerts = [WebhookURL |-> "http://alerts"],
        !.Prevention = [@ EXCEPT
            !.Tools = tf,
            !.PII = [PIIOff EXCEPT !.Enabled = ssn, !.BlockSSN = ssn]]] :
        tf \in ToolFilters, ssn \in BOOLEAN} \cup
    {[GuardConfig EXCEPT
        !.Sessions = FALSE,
        !.Alerts = [WebhookURL |-> "http://alerts"],
        !.Prevention = [@ EXCEPT
            !.ModelLimits = ml,
            !.PII = [PIIOff EXCEPT !.Enabled = TRUE, !.BlockSSN = TRUE]]] :
        ml \in {ModelLimitsOff, ModelLimits}}

\* A deployment with a session store in which requests are served side by
\* side: a budget of 8 tokens, two similar prompts, two consecutive errors,
\* the model limit, and an approval webhook that is asked about none of the
\* rules that can trigger, so that every violation is enforced.
SessionConfig == [GuardConfig EXCEPT
    !.Budgets = [MaxSessionTokens |-> 8],
    !.LoopDetection = [SimilarPromptThreshold |-> 80, MaxSimilarPrompts |-> 2,
                       WindowSeconds |-> 60],
    !.RetryProtection = [MaxConsecutiveErrors |-> 2],
    !.Prevention = [@ EXCEPT
        !.ModelLimits = ModelLimits,
        !.Approval = [Enabled |-> TRUE, WebhookURL |-> "http://approve",
                      Rules |-> {"tool_retry_storm"},
                      TimeoutSeconds |-> applyDefaults(0),
                      FallbackAllow |-> FALSE]]]

Configs ==
    PlainConfigs \cup AuthConfigs \cup PIIConfigs \cup ApprovalConfigs
    \cup ToolConfigs

(***************************************************************************)
(* Pure functions of the guardrails and proxy packages.                    *)
(***************************************************************************)
\* strings.ToLower on a word.
ToLower(word) ==
    CASE word = "My" -> "my"
      [] word = "SSN" -> "ssn"
      [] word = "Contact" -> "contact"
      [] word = "Request Timeout" -> "request timeout"
      [] word = "Maximum Context exceeded" -> "maximum context exceeded"
      [] OTHER -> word

\* strings.Fields: the words of a text.
Fields(s) == SelectSeq(s, LAMBDA token : token # " ")

\* wordSet: the set of lowercased words of a text.
wordSet(s) == {ToLower(Fields(s)[i]) : i \in DOMAIN Fields(s)}

\* jaccardSimilarity, as the fraction <<numerator, denominator>>.
jaccardSimilarity(a, b) ==
    LET wordsA == wordSet(a)
        wordsB == wordSet(b)
        intersection == Cardinality({x \in wordsA : x \in wordsB})
        union == Cardinality(wordsA) + Cardinality({x \in wordsB : x \notin wordsA})
    IN  IF wordsA = {} /\ wordsB = {} THEN <<1, 1>>
        ELSE IF union = 0 THEN <<1, 1>>
        ELSE <<intersection, union>>

\* score >= threshold, the threshold in percent.
ScoreAtLeast(score, threshold) == score[1] * 100 >= threshold * score[2]

\* The PII regular expressions, on words: the words each one matches.
ssnRegex == {"123-45-6789"}
ccRegex == {"4111111111111111"}
emailRegex == {"alice@example.com"}
phoneRegex == {"555-123-4567"}

MatchString(regex, text) == \E i \in DOMAIN text : text[i] \in regex

ReplaceAllString(regex, text, repl) ==
    [i \in DOMAIN text |-> IF text[i] \in regex THEN repl ELSE text[i]]

\* checkPII: <<blocked, redacted text>>.
checkPII(pii, text) ==
    IF ~pii.Enabled \/ text = <<>> THEN <<FALSE, text>>
    ELSE
    LET hit1 == pii.BlockSSN /\ MatchString(ssnRegex, text)
        red1 == IF hit1 THEN ReplaceAllString(ssnRegex, text, "[SSN]") ELSE text
        hit2 == pii.BlockCC /\ MatchString(ccRegex, red1)
        red2 == IF hit2 THEN ReplaceAllString(ccRegex, red1, "[CC]") ELSE red1
        hit3 == pii.BlockEmail /\ MatchString(emailRegex, red2)
        red3 == IF hit3 THEN ReplaceAllString(emailRegex, red2, "[EMAIL]") ELSE red2
        hit4 == pii.BlockPhone /\ MatchString(phoneRegex, red3)
        red4 == IF hit4 THEN ReplaceAllString(phoneRegex, red3, "[PHONE]") ELSE red3
        found == hit1 \/ hit2 \/ hit3 \/ hit4
    IN  IF found /\ pii.RedactMode = "block" THEN <<TRUE, text>>
        ELSE <<FALSE, red4>>

\* strings of a slice that satisfy a membership test, in order.
RECURSIVE Keep(_, _, _)
Keep(names, set, in) ==
    IF names = <<>> THEN <<>>
    ELSE IF (Head(names) \in set) = in
    THEN <<Head(names)>> \o Keep(Tail(names), set, in)
    ELSE Keep(Tail(names), set, in)

\* filterTools: the allowlist if there is one, else the blocklist.
filterTools(tf, tools) ==
    IF ~tf.Enabled \/ Len(tools) = 0 THEN tools
    ELSE IF tf.Allowlist # {} THEN Keep(tools, tf.Allowlist, TRUE)
    ELSE IF tf.Blocklist # {} THEN Keep(tools, tf.Blocklist, FALSE)
    ELSE tools

\* checkModelDowngrade; the cost is tokens / 1,000,000 x cost per million.
checkModelDowngrade(ml, model, sessionTokens) ==
    IF ~ml.Enabled \/ ml.CostThresholdUSD = 0 THEN model
    ELSE IF /\ model \in DOMAIN ml.CostPerMToken
            /\ sessionTokens * ml.CostPerMToken[model]
                    >= ml.CostThresholdUSD * 1000000
            /\ model \in DOMAIN ml.DowngradeMap
    THEN ml.DowngradeMap[model]
    ELSE model

\* extractToolNames: the function names of the tools array that are not
\* empty.
RECURSIVE extractToolNames(_)
extractToolNames(tools) ==
    IF tools = <<>> THEN <<>>
    ELSE IF Head(tools).Name # ""
    THEN <<Head(tools).Name>> \o extractToolNames(Tail(tools))
    ELSE extractToolNames(Tail(tools))

\* redactMessagesJSON on the content of a user message: a string equal to
\* the original prompt, or each text part equal to it, becomes the
\* redacted prompt.
redactMessagesJSON(content, original, redacted) ==
    IF content.kind = "string"
    THEN IF content.text = original
         THEN [content EXCEPT !.text = redacted] ELSE content
    ELSE [content EXCEPT !.parts =
            [j \in DOMAIN content.parts |->
                IF content.parts[j].Type = "text"
                   /\ content.parts[j].Text = original
                THEN [content.parts[j] EXCEPT !.Text = redacted]
                ELSE content.parts[j]]]

\* filterToolsJSON: the entries whose function.name is in the allowed list.
RECURSIVE filterToolsJSON(_, _)
filterToolsJSON(tools, allowed) ==
    IF tools = <<>> THEN <<>>
    ELSE IF \E i \in DOMAIN allowed : allowed[i] = Head(tools).Name
    THEN <<Head(tools)>> \o filterToolsJSON(Tail(tools), allowed)
    ELSE filterToolsJSON(Tail(tools), allowed)

\* modifyRequestBody.  The body is a map of its top-level fields; the ones
\* that are not assigned keep their raw value.  A nil slice is <<>>.
modifyRequestBody(body, newPrompt, newTools, newModel, originalPrompt) ==
    LET b1 == IF newModel # "" THEN [body EXCEPT !.model = newModel] ELSE body
        b2 == IF newPrompt # originalPrompt
              THEN [b1 EXCEPT !.content =
                        redactMessagesJSON(@, originalPrompt, newPrompt)]
              ELSE b1
    IN  IF newTools # <<>> /\ body.hasTools
        THEN [b2 EXCEPT !.tools = filterToolsJSON(@, newTools)]
        ELSE b2

\* EvaluatePrevention: PII, then tools, then the model downgrade.  Modified
\* tells whether ModifiedBody is set (non-nil).
EvaluatePrevention(c, reqBody, promptText, toolNames, model, sessionTokens) ==
    LET prev == c.Prevention
        result == [Blocked |-> FALSE, BlockReason |-> "",
                   PIIRedacted |-> FALSE, ToolsFiltered |-> FALSE,
                   ModelDowngraded |-> "", Modified |-> FALSE,
                   ModifiedBody |-> reqBody]
        pii == checkPII(prev.PII, promptText)
        redact == prev.PII.Enabled /\ pii[2] # promptText
        newPrompt == IF redact THEN pii[2] ELSE promptText
        filter == prev.Tools.Enabled /\ Len(toolNames) > 0
        filtered == filterTools(prev.Tools, toolNames)
        fewer == filter /\ Len(filtered) # Len(toolNames)
        newTools == IF fewer THEN filtered ELSE toolNames
        downgraded == checkModelDowngrade(prev.ModelLimits, model, sessionTokens)
        down == prev.ModelLimits.Enabled /\ downgraded # model
        newModel == IF down THEN downgraded ELSE model
    IN  IF ~c.Guardrails THEN result
        ELSE IF prev.PII.Enabled /\ pii[1]
        THEN [result EXCEPT
                !.Blocked = TRUE,
                !.BlockReason = "PII detected in request (policy: block)"]
        ELSE IF filter /\ Len(filtered) = 0
        THEN [result EXCEPT
                !.Blocked = TRUE,
                !.PIIRedacted = redact,
                !.BlockReason = "all requested tools are blocked by policy"]
        ELSE [result EXCEPT
                !.PIIRedacted = redact,
                !.ToolsFiltered = fewer,
                !.ModelDowngraded = IF down THEN model ELSE "",
                !.Modified = redact \/ fewer \/ down,
                !.ModifiedBody =
                    IF redact \/ fewer \/ down
                    THEN modifyRequestBody(reqBody, newPrompt, newTools,
                                           newModel, promptText)
                    ELSE reqBody]

\* An authenticateGateway that takes the key from either header.
authenticateEither(q, gatewayKey) ==
    \/ gatewayKey = ""
    \/ q.XGatewayKey = gatewayKey
    \/ q.XApiKey = gatewayKey

\* authenticateGateway: TRUE iff the request may proceed.
authenticateGateway(q, gatewayKey) ==
    IF gatewayKey = "" THEN TRUE
    ELSE LET provided == IF q.XGatewayKey = "" THEN q.XApiKey ELSE q.XGatewayKey
         IN  provided = gatewayKey

\* The text of the first part of type "text", "" without one.
RECURSIVE FirstText(_, _)
FirstText(parts, i) ==
    IF i > Len(parts) THEN <<>>
    ELSE IF parts[i].Type = "text" THEN parts[i].Text
    ELSE FirstText(parts, i + 1)

\* extractPromptText, of the last user message: a string content is the
\* text; of an array of parts, the text of the first text part.
extractPromptText(content) ==
    IF content.kind = "string" THEN content.text
    ELSE FirstText(content.parts, 1)

\* extractSessionID: X-Session-ID, else a hash of Authorization, else
\* "anonymous".
extractSessionID(q) ==
    IF q.XSessionID # "" THEN q.XSessionID
    ELSE IF q.Authorization # "" THEN "auth_" \o q.Authorization
    ELSE "anonymous"

(***************************************************************************)
(* Detection (pkg/guardrails): pure over a snapshot of the session.        *)
(***************************************************************************)
NoViolation == "none"

\* checkTokenBudget
checkTokenBudget(c, totalTokens) ==
    LET max == c.Budgets.MaxSessionTokens
    IN  IF max <= 0 THEN NoViolation
        ELSE IF totalTokens >= max THEN "token_budget" ELSE NoViolation

\* The entries of the history that checkPromptLoop counts as similar.
SimilarEntries(c, history, currentPrompt, clock) ==
    {i \in DOMAIN history :
        /\ ~(Seconds(history[i].Timestamp)
                < Seconds(clock) - c.LoopDetection.WindowSeconds)
        /\ ScoreAtLeast(jaccardSimilarity(currentPrompt, history[i].Text),
                        c.LoopDetection.SimilarPromptThreshold)}

\* checkPromptLoop
checkPromptLoop(c, history, currentPrompt, clock) ==
    LET threshold == c.LoopDetection.SimilarPromptThreshold
        maxSimilar == c.LoopDetection.MaxSimilarPrompts
        matches == Cardinality(SimilarEntries(c, history, currentPrompt, clock))
    IN  IF threshold <= 0 \/ maxSimilar <= 0 \/ currentPrompt = <<>>
        THEN NoViolation
        ELSE IF matches >= maxSimilar THEN "prompt_loop" ELSE NoViolation

\* checkToolRetryStorm
checkToolRetryStorm(c, toolCalls, currentTools, clock) ==
    LET maxCalls == c.ToolProtection.MaxRepeatCalls
        windowSec == c.ToolProtection.RepeatWindowSeconds
        recentCount(tool) ==
            Cardinality({i \in DOMAIN toolCalls[tool] :
                Seconds(toolCalls[tool][i]) > Seconds(clock) - windowSec})
    IN  IF maxCalls <= 0 \/ windowSec <= 0 THEN NoViolation
        ELSE IF \E i \in DOMAIN currentTools :
                    /\ currentTools[i] \in DOMAIN toolCalls
                    /\ recentCount(currentTools[i]) >= maxCalls
        THEN "tool_retry_storm" ELSE NoViolation

\* checkErrorSpiral
checkErrorSpiral(c, consecutiveErrors) ==
    LET maxErrors == c.RetryProtection.MaxConsecutiveErrors
    IN  IF maxErrors <= 0 THEN NoViolation
        ELSE IF consecutiveErrors >= maxErrors THEN "error_spiral"
        ELSE NoViolation

\* An Evaluate that checks the rules in the opposite order.
EvaluateReversed(c, store, sessionID, promptText, toolNames, clock) ==
    IF ~c.Guardrails THEN NoViolation
    ELSE IF sessionID \notin DOMAIN store THEN NoViolation
    ELSE
    LET s == store[sessionID]
        v1 == checkTokenBudget(c, s.TotalTokens)
        v2 == checkPromptLoop(c, s.PromptHistory, promptText, clock)
        v3 == checkToolRetryStorm(c, s.ToolCalls, toolNames, clock)
        v4 == checkErrorSpiral(c, s.ConsecutiveErrors)
    IN  IF v4 # NoViolation THEN v4
        ELSE IF v3 # NoViolation THEN v3
        ELSE IF v2 # NoViolation THEN v2
        ELSE v1

\* Evaluate: the rule of the first violation, or NoViolation.  store is
\* the session map, read under the manager's lock.
Evaluate(c, store, sessionID, promptText, toolNames, clock) ==
    IF ~c.Guardrails THEN NoViolation
    ELSE IF sessionID \notin DOMAIN store THEN NoViolation
    ELSE
    LET s == store[sessionID]
        v1 == checkTokenBudget(c, s.TotalTokens)
        v2 == checkPromptLoop(c, s.PromptHistory, promptText, clock)
        v3 == checkToolRetryStorm(c, s.ToolCalls, toolNames, clock)
        v4 == checkErrorSpiral(c, s.ConsecutiveErrors)
    IN  IF v1 # NoViolation THEN v1
        ELSE IF v2 # NoViolation THEN v2
        ELSE IF v3 # NoViolation THEN v3
        ELSE v4

(***************************************************************************)
(* Approval (pkg/guardrails/approval.go).                                  *)
(***************************************************************************)
\* What the approval webhook does when it is called.
\* body is what it sends back, after is the number of seconds it takes.
WebhookAnswers ==
    {[body |-> b, after |-> d] :
        b \in {"approved", "declined", "undecodable"}, d \in {0, 5}}
    \cup {[body |-> "unreachable", after |-> 0]}
NotAsked == [body |-> "not_asked", after |-> 0]

\* RequestApproval reaches the webhook for this rule.
CallsWebhook(a, rule) ==
    /\ a.Enabled /\ a.WebhookURL # ""
    /\ (a.Rules # {} => rule \in a.Rules)

\* RequestApproval: the decision, given the webhook's answer.
\* The timeout of the context and of the HTTP client, in seconds.
ApprovalTimeout(a) ==
    IF a.TimeoutSeconds = 0 THEN DefaultTimeoutSeconds ELSE a.TimeoutSeconds

\* RequestApproval with a failing webhook call taken as a refusal.
RequestApprovalDenyOnFailure(a, rule, answer) ==
    IF ~a.Enabled \/ a.WebhookURL = "" THEN TRUE
    ELSE IF a.Rules # {} /\ rule \notin a.Rules THEN FALSE
    ELSE answer.body = "approved" /\ answer.after <= ApprovalTimeout(a)

RequestApproval(a, rule, answer) ==
    IF ~a.Enabled \/ a.WebhookURL = "" THEN TRUE
    ELSE IF a.Rules # {} /\ rule \notin a.Rules THEN FALSE
    ELSE IF answer.body = "unreachable" THEN a.FallbackAllow
    ELSE IF answer.after > ApprovalTimeout(a) THEN a.FallbackAllow
    ELSE IF answer.body = "undecodable" THEN a.FallbackAllow
    ELSE answer.body = "approved"

\* How long RequestApproval waits for the webhook, in seconds.
ApprovalWait(a, rule, answer) ==
    IF ~CallsWebhook(a, rule) \/ answer.body = "unreachable" THEN 0
    ELSE IF answer.after > ApprovalTimeout(a) THEN ApprovalTimeout(a)
    ELSE answer.after

(***************************************************************************)
(* The session store (guardrails.Manager); every operation holds m.mu.     *)
(* CreatedAt and RequestCount are written and never read; they are left    *)
(* out.                                                                    *)
(***************************************************************************)
MaxHistory == 20

\* The zero time.Time, which lies before every reading of the clock.
ZeroTime == 0 - 1

\* The ttl the session manager was created with, in seconds.
SessionTTL == 30

\* The SessionState that GetOrCreate builds: CreatedAt is set, LastActive is
\* left at the zero time.
NewSession(clock) ==
    [CreatedAt |-> clock, LastActive |-> ZeroTime, TotalTokens |-> 0,
     PromptHistory |-> <<>>, ToolCalls |-> <<>>, ConsecutiveErrors |-> 0]

\* A trim that keeps the oldest entries.
FirstN(seq, n) == IF Len(seq) > n THEN SubSeq(seq, 1, n) ELSE seq

\* s.PromptHistory[len(s.PromptHistory)-20:], when the history is longer.
LastN(seq, n) ==
    IF Len(seq) > n THEN SubSeq(seq, Len(seq) - n + 1, Len(seq)) ELSE seq

GetOrCreate(store, sessionID, clock) ==
    IF sessionID \in DOMAIN store THEN store
    ELSE [id \in DOMAIN store \cup {sessionID} |->
            IF id = sessionID THEN NewSession(clock) ELSE store[id]]

RecordRequest(store, sessionID, promptText, toolNames, clock) ==
    IF sessionID \notin DOMAIN store THEN store
    ELSE
    LET s == store[sessionID]
        hist == IF promptText # <<>>
                THEN LastN(Append(s.PromptHistory,
                                  [Text |-> promptText, Timestamp |-> clock]),
                           MaxHistory)
                ELSE s.PromptHistory
        names == {toolNames[i] : i \in DOMAIN toolNames}
        calls == [t \in DOMAIN s.ToolCalls \cup names |->
                    LET old == IF t \in DOMAIN s.ToolCalls
                               THEN s.ToolCalls[t] ELSE <<>>
                        n == Cardinality({i \in DOMAIN toolNames : toolNames[i] = t})
                    IN  old \o [i \in 1..n |-> clock]]
    IN  [store EXCEPT ![sessionID] =
            [s EXCEPT !.LastActive = clock,
                      !.PromptHistory = hist, !.ToolCalls = calls]]

\* A RecordResponse that counts every response as an error.
RecordResponseAlwaysError(store, sessionID, tokens, isError) ==
    IF sessionID \notin DOMAIN store THEN store
    ELSE [store EXCEPT ![sessionID] =
            [@ EXCEPT !.TotalTokens = @ + tokens,
                      !.ConsecutiveErrors = @ + 1]]

\* A RecordResponse that never resets the error count.
RecordResponseNoReset(store, sessionID, tokens, isError) ==
    IF sessionID \notin DOMAIN store THEN store
    ELSE [store EXCEPT ![sessionID] =
            [@ EXCEPT !.TotalTokens = @ + tokens,
                      !.ConsecutiveErrors = IF isError THEN @ + 1 ELSE @]]

RecordResponse(store, sessionID, tokens, isError) ==
    IF sessionID \notin DOMAIN store THEN store
    ELSE [store EXCEPT ![sessionID] =
            [@ EXCEPT !.TotalTokens = @ + tokens,
                      !.ConsecutiveErrors = IF isError THEN @ + 1 ELSE 0]]

GetSessionTokens(store, sessionID) ==
    IF sessionID \in DOMAIN store THEN store[sessionID].TotalTokens ELSE 0

\* A Remove that leaves the session in the map.
RemoveNothing(store, sessionID) == store

Remove(store, sessionID) ==
    [id \in DOMAIN store \ {sessionID} |-> store[id]]

\* now.Sub(s.LastActive) > m.ttl.  The difference to the zero time
\* saturates at the largest Duration, which exceeds every ttl.
Idle(s, clock, ttl) ==
    IF s.LastActive = ZeroTime THEN TRUE
    ELSE Seconds(clock - s.LastActive) > ttl

\* One pass of cleanupLoop over the session map.
Sweep(store, clock, ttl) ==
    [id \in {i \in DOMAIN store : ~Idle(store[i], clock, ttl)} |-> store[id]]

(***************************************************************************)
(* State.                                                                  *)
(***************************************************************************)
VARIABLES
    rp,         \* replay.Run: where it is, its record, its locals
    tk,         \* the PerformanceTracker: its models and its mutex
    rc,         \* per calling goroutine: where it is in RecordCall
    call,       \* a direct call of a function: arguments and result
    fed,        \* what a caller of the session Manager has passed to it
    sr,         \* handleStreamingResponse: the copy loop and its buffers
    va          \* VerifyAttestation: the package and the callers' locals

\* The state of the packages that are driven directly, outside a request.
libVars == <<rp, tk, rc, call, fed, sr, va>>

VARIABLES
    cfg,        \* proxy.Config with its guardrails.Config
    now,        \* the wall clock, in ticks
    nextRun,    \* requests admitted so far
    req,        \* per run: the HTTP request
    pc,         \* per run: where its handler is
    loc,        \* per run: locals of handleProxy
    w,          \* per run: the http.ResponseWriter
    bg,         \* per run: the backgroundRecord goroutine
    alert,      \* per run: the SendWebhookAlert goroutine
    sessions,   \* Manager.sessions
    vault,      \* keys stored in the blob vault
    airFiles,   \* the runs directory: run id -> AIR record
    airWrites   \* per run id: AIR files written

proxyVars == <<cfg, now, nextRun, req, pc, loc, w, bg, alert, sessions,
               vault, airFiles, airWrites, libVars>>

VARIABLES
    ac,         \* the AuditChain: secret, entries, last, seq
    mu,         \* AuditChain.mu: the goroutine holding it, 0 when free
    app,        \* per appending goroutine: where it is in Append, its locals
    tamper,     \* the stored entry and field modified behind the chain's back
    exp         \* the evidence export: where it is, its locals, its package

chainVars == <<ac, mu, app, tamper, exp, libVars>>

\* The state of the gateway itself.
gatewayVars == <<cfg, now, nextRun, req, pc, loc, w, bg, alert, sessions,
                 vault, airFiles, airWrites, ac, mu, app, tamper, exp>>

\* Upstream status codes, one per class the code distinguishes.
UpstreamStatuses == {200, 400}

\* What the upstream does with a forwarded request: a transport error of
\* client.Do, or a response whose body can or cannot be read to its end.
\* The Content-Type of the response is read for a streaming request only.
UpstreamOutcomes(stream) ==
    {[err |-> TRUE, StatusCode |-> 0, sse |-> FALSE, readOK |-> FALSE]} \cup
    [err : {FALSE}, StatusCode : UpstreamStatuses,
     sse : IF stream THEN BOOLEAN ELSE {FALSE}, readOK : BOOLEAN]

\* No upstream call was made.
NoOutcome == [err |-> FALSE, StatusCode |-> 0, sse |-> FALSE, readOK |-> FALSE]

NoRequest == [XGatewayKey |-> "", XApiKey |-> "", XSessionID |-> "",
              Authorization |-> "", model |-> "",
              content |-> StringContent(<<>>),
              tools |-> <<>>,
              stream |-> FALSE]

\* The JSON body of a request: its top-level fields.  hasTools tells
\* whether it has a tools field at all.
Body(q) == [model |-> q.model, content |-> q.content, tools |-> q.tools,
            hasTools |-> q.tools # <<>>, stream |-> q.stream]

\* The requests sent to a deployment.  To keep the model small, the
\* traffic varies what the deployment's configuration makes matter: the key
\* headers where a key is required, the prompt where guardrails read it, the
\* session where sessions are kept, streaming where nothing else varies.
Requests(c) ==
    [XGatewayKey : IF c.GatewayKey = "" THEN {""} ELSE KeyValues,
     XApiKey : IF c.GatewayKey = "" THEN {""} ELSE KeyValues,
     XSessionID : IF c.Sessions THEN SessionHeaders ELSE {""},
     Authorization : {""},
     model : {"gpt-4"},
     content : IF ~c.Guardrails THEN {StringContent(PromptLoop)}
               ELSE IF c \in ToolConfigs
               THEN IF c.Prevention.PII.Enabled
                    THEN {StringContent(PromptLoop), StringContent(PromptSSN)}
                    ELSE {StringContent(PromptLoop)}
               ELSE IF c.Prevention.PII.Enabled THEN Contents
               ELSE {StringContent(PromptLoop), StringContent(PromptNone)},
     tools : IF c \in ToolConfigs THEN ToolLists ELSE {<<>>},
     stream : IF c.Guardrails \/ c.GatewayKey # "" THEN {FALSE} ELSE BOOLEAN]

\* scheduled counts the go backgroundRecord statements executed.
NoLocals == [runID |-> 0, body |-> Body(NoRequest), prompt |-> <<>>,
             v |-> NoViolation,
             answer |-> NotAsked, approved |-> FALSE, waited |-> 0,
             called |-> FALSE,
             scheduled |-> 0, resp |-> NoOutcome]

\* A response writer nothing was written to.
NoResponse == [status |-> 0, xRunID |-> 0, contentType |-> "", body |-> ""]

\* A vault reference is its URI; the empty vault.Ref has none.
NoRef == <<>>
VaultURI(runID, name) == <<"vault://", runID, name>>

\* The goroutine of backgroundRecord: its arguments (status, errMsg, the
\* response body being nil or not), the vault references it obtained, and
\* how its write of the AIR record ended.  up is what the upstream did
\* for this run, kept beside the arguments for the properties.
NoBackground == [pc |-> "none", runID |-> 0, status |-> "", errMsg |-> "",
                 hasResp |-> FALSE, reqRef |-> NoRef, respRef |-> NoRef,
                 wrote |-> "", up |-> NoOutcome]

ProxyInit(configs) ==
    /\ cfg \in configs
    /\ now = 0
    /\ nextRun = 0
    /\ req = [r \in Runs |-> NoRequest]
    /\ pc = [r \in Runs |-> "idle"]
    /\ loc = [r \in Runs |-> NoLocals]
    /\ w = [r \in Runs |-> NoResponse]
    /\ bg = [r \in Runs |-> NoBackground]
    /\ alert = [r \in Runs |-> "none"]
    /\ sessions = <<>>
    /\ vault = {}
    /\ airFiles = <<>>
    /\ airWrites = [r \in Runs |-> 0]

\* Requests sent to a deployment.  Without a session store they share
\* nothing but the runs directory and the vault, and one fewer is sent.
RunBudget(c) == IF c.Sessions THEN MaxRuns ELSE MaxRuns - 1

Inflight ==
    Cardinality({r \in Runs : pc[r] \notin {"idle", "done", "retired"}})

\* The handlers that run side by side: net/http serves every request in a
\* goroutine of its own.  Only the session deployment is explored with more
\* than MaxInflight of them.
InflightLimit(c) == IF c = SessionConfig THEN MaxConcurrent ELSE MaxInflight

\* http.Error: a plain-text error response.
HttpError(writer, status, body) ==
    [writer EXCEPT !.status = status, !.contentType = "text/plain",
                   !.body = body]

\* A JSON error envelope written with WriteHeader and an Encoder.
JsonError(writer, status, type) ==
    [writer EXCEPT !.status = status, !.contentType = "application/json",
                   !.body = type]

\* go SendWebhookAlert(url, v): returns at once when no URL is set.
SendWebhookAlert(url) == IF url = "" THEN "none" ELSE "posting"

\* go backgroundRecord(...): the goroutine up to its first call of the
\* vault or the recorder; with neither configured it ends at once.
backgroundRecord(c, runID, status, errMsg, hasResp, up) ==
    IF c.Vault
    THEN [NoBackground EXCEPT !.pc = "vault_request", !.runID = runID,
                              !.status = status, !.errMsg = errMsg,
                              !.hasResp = hasResp, !.up = up]
    ELSE IF c.Recorder
    THEN [NoBackground EXCEPT !.pc = "write", !.runID = runID,
                              !.status = status, !.errMsg = errMsg,
                              !.hasResp = hasResp, !.up = up]
    ELSE [NoBackground EXCEPT !.pc = "done", !.runID = runID]

(***************************************************************************)
(* The proxy pipeline (pkg/proxy): one action per step of a handler.       *)
(***************************************************************************)
\* The mux handler: authenticateGateway, then the start of handleProxy
\* (run id, body read, parse).
Handler(r) ==
    /\ r = nextRun + 1
    /\ r <= RunBudget(cfg)
    /\ pc[r] = "idle"
    /\ Inflight < InflightLimit(cfg)
    /\ \A other \in Runs : pc[other] # "done"
    /\ \E q \in Requests(cfg), readable \in BOOLEAN :
        /\ req' = [req EXCEPT ![r] = q]
        /\ IF ~authenticateGateway(q, cfg.GatewayKey)
           THEN /\ w' = [w EXCEPT ![r] = HttpError(@, 401, "unauthorized")]
                /\ pc' = [pc EXCEPT ![r] = "done"]
                /\ loc' = loc
           ELSE IF ~readable
           THEN /\ w' = [w EXCEPT ![r] =
                            HttpError(@, 400, "failed to read request")]
                /\ pc' = [pc EXCEPT ![r] = "done"]
                /\ loc' = [loc EXCEPT ![r].runID = r]
           ELSE /\ w' = w
                /\ pc' = [pc EXCEPT ![r] = "prevention"]
                /\ loc' = [loc EXCEPT ![r].runID = r,
                                      ![r].body = Body(q),
                                      ![r].prompt = extractPromptText(q.content)]
    /\ nextRun' = r
    /\ UNCHANGED chainVars
    /\ UNCHANGED <<cfg, now, bg, alert, sessions, vault, airFiles, airWrites>>

\* The prevention layer of handleProxy.
Prevention(r) ==
    /\ pc[r] = "prevention"
    /\ LET sessionTokens ==
                IF cfg.Sessions
                THEN GetSessionTokens(sessions, extractSessionID(req[r]))
                ELSE 0
           res == EvaluatePrevention(cfg, loc[r].body, loc[r].prompt,
                                     extractToolNames(loc[r].body.tools),
                                     loc[r].body.model, sessionTokens)
       IN  IF cfg.Guardrails /\ res.Blocked
           THEN /\ w' = [w EXCEPT ![r] =
                            JsonError(@, 403, "prevention_policy_blocked")]
                /\ alert' = [alert EXCEPT ![r] =
                                SendWebhookAlert(cfg.Alerts.WebhookURL)]
                /\ pc' = [pc EXCEPT ![r] = "done"]
                /\ loc' = loc
           ELSE /\ loc' = [loc EXCEPT
                            ![r].body = res.ModifiedBody,
                            ![r].prompt =
                                extractPromptText(res.ModifiedBody.content)]
                /\ pc' = [pc EXCEPT ![r] =
                            IF cfg.Guardrails /\ cfg.Sessions
                            THEN "get_or_create" ELSE "forward"]
                /\ UNCHANGED <<w, alert>>
    /\ UNCHANGED chainVars
    /\ UNCHANGED <<cfg, now, nextRun, req, bg, sessions, vault, airFiles,
                   airWrites>>

\* cfg.Sessions.GetOrCreate(sessionID)
GetOrCreateStep(r) ==
    /\ pc[r] = "get_or_create"
    /\ sessions' = GetOrCreate(sessions, extractSessionID(req[r]), now)
    /\ pc' = [pc EXCEPT ![r] = "record_request"]
    /\ UNCHANGED chainVars
    /\ UNCHANGED <<cfg, now, nextRun, req, loc, w, bg, alert, vault,
                   airFiles, airWrites>>

\* cfg.Sessions.RecordRequest(sessionID, promptText, toolNames)
RecordRequestStep(r) ==
    /\ pc[r] = "record_request"
    /\ sessions' = RecordRequest(sessions, extractSessionID(req[r]),
                                 loc[r].prompt,
                                 extractToolNames(loc[r].body.tools), now)
    /\ pc' = [pc EXCEPT ![r] = "evaluate"]
    /\ UNCHANGED chainVars
    /\ UNCHANGED <<cfg, now, nextRun, req, loc, w, bg, alert, vault,
                   airFiles, airWrites>>

\* guardrails.Evaluate(cfg.Guardrails, cfg.Sessions, sessionID, evalReq)
EvaluateStep(r) ==
    /\ pc[r] = "evaluate"
    /\ LET v == Evaluate(cfg, sessions, extractSessionID(req[r]),
                         loc[r].prompt,
                         extractToolNames(loc[r].body.tools), now)
       IN  /\ loc' = [loc EXCEPT ![r].v = v]
           /\ pc' = [pc EXCEPT ![r] =
                        IF v = NoViolation THEN "forward" ELSE "approval"]
    /\ UNCHANGED chainVars
    /\ UNCHANGED <<cfg, now, nextRun, req, w, bg, alert, sessions, vault,
                   airFiles, airWrites>>

\* guardrails.RequestApproval(ctx, cfg.Guardrails.Prevention.Approval, v)
ApprovalStep(r) ==
    /\ pc[r] = "approval"
    /\ LET a == cfg.Prevention.Approval
       IN  \E answer \in (IF CallsWebhook(a, loc[r].v)
                           THEN WebhookAnswers ELSE {NotAsked}) :
            LET approved == RequestApproval(a, loc[r].v, answer)
            IN  /\ loc' = [loc EXCEPT
                            ![r].answer = answer,
                            ![r].approved = approved,
                            ![r].waited = ApprovalWait(a, loc[r].v, answer)]
                /\ pc' = [pc EXCEPT ![r] =
                            IF approved THEN "forward" ELSE "block"]
    /\ UNCHANGED chainVars
    /\ UNCHANGED <<cfg, now, nextRun, req, w, bg, alert, sessions, vault,
                   airFiles, airWrites>>

\* The violation is enforced: 429, the alert, Remove(sessionID).
Block(r) ==
    /\ pc[r] = "block"
    /\ w' = [w EXCEPT ![r] = JsonError(@, 429, "agent_guardrail_triggered")]
    /\ alert' = [alert EXCEPT ![r] = SendWebhookAlert(cfg.Alerts.WebhookURL)]
    /\ sessions' = Remove(sessions, extractSessionID(req[r]))
    /\ pc' = [pc EXCEPT ![r] = "done"]
    /\ UNCHANGED chainVars
    /\ UNCHANGED <<cfg, now, nextRun, req, loc, bg, vault, airFiles,
                   airWrites>>

\* upstreamClient.Do(proxyReq), and the x-run-id header on a response.
Forward(r) ==
    /\ pc[r] = "forward"
    /\ \E out \in UpstreamOutcomes(req[r].stream) :
        /\ loc' = [loc EXCEPT ![r].called = TRUE, ![r].resp = out,
                              ![r].scheduled = IF out.err THEN 1 ELSE 0]
        /\ IF out.err
           THEN /\ w' = [w EXCEPT ![r] = HttpError(@, 502, "upstream")]
                /\ bg' = [bg EXCEPT ![r] =
                            backgroundRecord(cfg, loc[r].runID, "error",
                                             "transport error", FALSE, out)]
                /\ pc' = [pc EXCEPT ![r] = "done"]
           ELSE /\ w' = [w EXCEPT ![r].xRunID = loc[r].runID]
                /\ bg' = bg
                /\ pc' = [pc EXCEPT ![r] = "transmit"]
    /\ UNCHANGED chainVars
    /\ UNCHANGED <<cfg, now, nextRun, req, alert, sessions, vault, airFiles,
                   airWrites>>

\* The record status both response handlers compute.
RecordStatus(statusCode) == IF statusCode >= 400 THEN "error" ELSE "success"

\* handleStreamingResponse: headers, the copy loop, the background record.
handleStreamingResponse(r) ==
    /\ loc' = [loc EXCEPT ![r].scheduled = @ + 1]
    /\ w' = [w EXCEPT ![r].contentType = "text/event-stream",
                      ![r].status = loc[r].resp.StatusCode,
                      ![r].body = IF loc[r].resp.readOK THEN "upstream"
                                  ELSE "upstream (cut short)"]
    /\ bg' = [bg EXCEPT ![r] =
                backgroundRecord(cfg, loc[r].runID,
                                 RecordStatus(loc[r].resp.StatusCode), "",
                                 TRUE, loc[r].resp)]

\* handleBufferedResponse: read all, respond, the background record.
handleBufferedResponse(r) ==
    IF ~loc[r].resp.readOK
    THEN /\ w' = [w EXCEPT ![r] =
                    HttpError(@, 502, "failed to read upstream response")]
         /\ bg' = bg
         /\ loc' = loc
    ELSE /\ loc' = [loc EXCEPT ![r].scheduled = @ + 1]
         /\ w' = [w EXCEPT ![r].contentType = "application/json",
                           ![r].status = loc[r].resp.StatusCode,
                           ![r].body = "upstream"]
         /\ bg' = [bg EXCEPT ![r] =
                backgroundRecord(cfg, loc[r].runID,
                                 RecordStatus(loc[r].resp.StatusCode), "",
                                 TRUE, loc[r].resp)]

\* The response is passed on, streamed or buffered.
Transmit(r) ==
    /\ pc[r] = "transmit"
    /\ IF req[r].stream /\ loc[r].resp.sse
       THEN handleStreamingResponse(r)
       ELSE handleBufferedResponse(r)
    /\ pc' = [pc EXCEPT ![r] =
                IF cfg.Guardrails /\ cfg.Sessions
                THEN "record_response" ELSE "done"]
    /\ UNCHANGED chainVars
    /\ UNCHANGED <<cfg, now, nextRun, req, alert, sessions, vault,
                   airFiles, airWrites>>

\* A bookkeeping step that charges the session 8 tokens for the response.
RecordResponseStepCharged(r) ==
    /\ pc[r] = "record_response"
    /\ sessions' = RecordResponse(sessions, extractSessionID(req[r]), 8,
                                  loc[r].resp.StatusCode >= 400)
    /\ pc' = [pc EXCEPT ![r] = "done"]
    /\ UNCHANGED chainVars
    /\ UNCHANGED <<cfg, now, nextRun, req, loc, w, bg, alert, vault,
                   airFiles, airWrites>>

\* cfg.Sessions.RecordResponse(sessionID, 0, resp.StatusCode >= 400)
RecordResponseStep(r) ==
    /\ pc[r] = "record_response"
    /\ sessions' = RecordResponse(sessions, extractSessionID(req[r]), 0,
                                  loc[r].resp.StatusCode >= 400)
    /\ pc' = [pc EXCEPT ![r] = "done"]
    /\ UNCHANGED chainVars
    /\ UNCHANGED <<cfg, now, nextRun, req, loc, w, bg, alert, vault,
                   airFiles, airWrites>>

(***************************************************************************)
(* The background goroutines: backgroundRecord and the alert.              *)
(***************************************************************************)
\* What a call of an ancillary service does: it succeeds, or it fails (an
\* error, or the deadline of its context or client).
Outcomes == {"ok", "failed"}

\* vaultStore: the reference's URI, NoRef for the empty Ref.
vaultStore(vc, runID, name, outcome) ==
    IF ~vc THEN NoRef
    ELSE IF outcome = "ok" THEN VaultURI(runID, name) ELSE NoRef

\* After the vault calls comes the write, if there is a recorder.
AfterVault(c) == IF c.Recorder THEN "write" ELSE "done"

\* backgroundRecord: the request goes to the vault.
BgVaultRequest(r) ==
    /\ bg[r].pc = "vault_request"
    /\ \E outcome \in Outcomes :
        LET uri == vaultStore(cfg.Vault, bg[r].runID, "request.json", outcome)
        IN  /\ bg' = [bg EXCEPT ![r].reqRef = uri,
                                ![r].pc = IF bg[r].hasResp
                                          THEN "vault_response"
                                          ELSE AfterVault(cfg)]
            /\ vault' = IF uri = NoRef THEN vault ELSE vault \cup {uri}
    /\ UNCHANGED chainVars
    /\ UNCHANGED <<cfg, now, nextRun, req, pc, loc, w, alert, sessions,
                   airFiles, airWrites>>

\* backgroundRecord: the response goes to the vault.
BgVaultResponse(r) ==
    /\ bg[r].pc = "vault_response"
    /\ \E outcome \in Outcomes :
        LET uri == vaultStore(cfg.Vault, bg[r].runID, "response.json", outcome)
        IN  /\ bg' = [bg EXCEPT ![r].respRef = uri, ![r].pc = AfterVault(cfg)]
            /\ vault' = IF uri = NoRef THEN vault ELSE vault \cup {uri}
    /\ UNCHANGED chainVars
    /\ UNCHANGED <<cfg, now, nextRun, req, pc, loc, w, alert, sessions,
                   airFiles, airWrites>>

\* The recorder.Record that writeAIRRecord builds.
AIRRecord(runID, reqRef, respRef, status, errMsg) ==
    [Version |-> "1.0.0", RunID |-> runID, RequestVaultRef |-> reqRef,
     ResponseVaultRef |-> respRef, Status |-> status, Error |-> errMsg]

\* Writer.Write: the file <run_id>.air.json is created or replaced.
WriteFile(dir, rec) ==
    [id \in DOMAIN dir \cup {rec.RunID} |->
        IF id = rec.RunID THEN rec ELSE dir[id]]

\* A writeAIRRecord on the hot path: a failed write becomes the response.
writeAIRRecordInline(r) ==
    /\ bg[r].pc = "write"
    /\ \E outcome \in Outcomes :
        LET rec == AIRRecord(bg[r].runID, bg[r].reqRef, bg[r].respRef,
                             bg[r].status, bg[r].errMsg)
        IN  /\ IF outcome = "ok"
               THEN /\ airFiles' = WriteFile(airFiles, rec)
                    /\ airWrites' = [airWrites EXCEPT ![rec.RunID] = @ + 1]
                    /\ w' = w
               ELSE /\ UNCHANGED <<airFiles, airWrites>>
                    /\ w' = [w EXCEPT ![r].status = 500,
                                      ![r].body = "write AIR record"]
            /\ bg' = [bg EXCEPT ![r].pc = "done", ![r].wrote = outcome]
    /\ UNCHANGED chainVars
    /\ UNCHANGED <<cfg, now, nextRun, req, pc, loc, alert, sessions, vault>>

\* writeAIRRecord with a recorder: the record is written, or the write
\* fails and is logged.  The goroutine ends.
writeAIRRecord(r) ==
    /\ bg[r].pc = "write"
    /\ \E outcome \in Outcomes :
        LET rec == AIRRecord(bg[r].runID, bg[r].reqRef, bg[r].respRef,
                             bg[r].status, bg[r].errMsg)
        IN  /\ IF outcome = "ok"
               THEN /\ airFiles' = WriteFile(airFiles, rec)
                    /\ airWrites' = [airWrites EXCEPT ![rec.RunID] = @ + 1]
               ELSE UNCHANGED <<airFiles, airWrites>>
            /\ bg' = [bg EXCEPT ![r].pc = "done", ![r].wrote = outcome]
    /\ UNCHANGED chainVars
    /\ UNCHANGED <<cfg, now, nextRun, req, pc, loc, w, alert, sessions,
                   vault>>

\* The goroutine of SendWebhookAlert posts the narrative and ends, whether
\* the post succeeds or fails.
AlertPost(r) ==
    /\ alert[r] = "posting"
    /\ \E outcome \in Outcomes : alert' = [alert EXCEPT ![r] = "none"]
    /\ UNCHANGED chainVars
    /\ UNCHANGED <<cfg, now, nextRun, req, pc, loc, w, bg, sessions, vault,
                   airFiles, airWrites>>

\* The handler has returned: its frame (request, locals, response writer)
\* is gone.  The goroutines it started go on with their own copies.
Retire(r) ==
    /\ pc[r] = "done"
    /\ pc' = [pc EXCEPT ![r] = "retired"]
    /\ req' = [req EXCEPT ![r] = NoRequest]
    /\ loc' = [loc EXCEPT ![r] = NoLocals]
    /\ w' = [w EXCEPT ![r] = NoResponse]
    /\ UNCHANGED chainVars
    /\ UNCHANGED <<cfg, now, nextRun, bg, alert, sessions, vault, airFiles,
                   airWrites>>

\* A goroutine of backgroundRecord that has ended is gone with what it held.
BgExit(r) ==
    /\ bg[r].pc = "done"
    /\ bg' = [bg EXCEPT ![r] = NoBackground]
    /\ UNCHANGED chainVars
    /\ UNCHANGED <<cfg, now, nextRun, req, pc, loc, w, alert, sessions,
                   vault, airFiles, airWrites>>

\* cleanupLoop: the ticker fires and the idle sessions are deleted, under
\* the manager's lock.  The ticker starts with the manager, so a pass can
\* fall between any two steps of the handlers.
cleanupLoop ==
    /\ cfg.Sessions
    /\ sessions' = Sweep(sessions, now, SessionTTL)
    /\ UNCHANGED chainVars
    /\ UNCHANGED <<cfg, now, nextRun, req, pc, loc, w, bg, alert, vault,
                   airFiles, airWrites>>

\* Time passes.  The clock is coarse: a handler returns within the tick it
\* started in.
Tick ==
    /\ now < MaxTicks
    /\ Inflight = 0
    /\ now' = now + 1
    /\ UNCHANGED chainVars
    /\ UNCHANGED <<cfg, nextRun, req, pc, loc, w, bg, alert, sessions,
                   vault, airFiles, airWrites>>

ProxyNext ==
    \/ \E r \in Runs : Handler(r)
    \/ \E r \in Runs : Prevention(r)
    \/ \E r \in Runs : GetOrCreateStep(r)
    \/ \E r \in Runs : RecordRequestStep(r)
    \/ \E r \in Runs : EvaluateStep(r)
    \/ \E r \in Runs : ApprovalStep(r)
    \/ \E r \in Runs : Block(r)
    \/ \E r \in Runs : Forward(r)
    \/ \E r \in Runs : Transmit(r)
    \/ \E r \in Runs : RecordResponseStep(r)
    \/ \E r \in Runs : BgVaultRequest(r)
    \/ \E r \in Runs : BgVaultResponse(r)
    \/ \E r \in Runs : writeAIRRecord(r)
    \/ \E r \in Runs : AlertPost(r)
    \/ \E r \in Runs : Retire(r)
    \/ \E r \in Runs : BgExit(r)
    \/ cleanupLoop
    \/ Tick

(***************************************************************************)
(* The audit chain (pkg/trust).  A hash is the constructor applied to what *)
(* was hashed, so two hashes are equal exactly when their inputs are.      *)
(***************************************************************************)
Appenders == 1..MaxAppenders

\* What the appending goroutines pass to Append.
ChainRunIDs == {"run-concurrent", "run-001"}
RecordJSONs == {"{n:0}", "{n:1}"}

\* The empty string where a hash is expected.
NoHash == <<>>

\* sha256Hex
sha256Hex(data) == <<"sha256", data>>

\* json.Marshal of a ChainEntry: its fields in the order of the struct.
Marshal(e) ==
    <<e.Sequence, e.RunID, e.RecordHash, e.PrevHash, e.Signature, e.Timestamp>>

\* AuditChain.sign: HMAC-SHA256 of sequence|run_id|record_hash|prev_hash.
sign(secret, e) ==
    <<"hmac-sha256", secret, <<e.Sequence, e.RunID, e.RecordHash, e.PrevHash>>>>

NoEntry == [Sequence |-> 0, RunID |-> "", RecordHash |-> NoHash,
            PrevHash |-> NoHash, Signature |-> NoHash, Timestamp |-> 0]

\* NewAuditChain(secret)
NewAuditChain(secret) ==
    [secret |-> secret, entries |-> <<>>, last |-> NoHash, seq |-> 0]

\* Nothing was modified.
NoTamper == [index |-> 0, field |-> ""]

\* No evidence package yet, and no export under way.
NoPackage ==
    [ExportedAt |-> ZeroTime, GatewayID |-> "", ChainLength |-> 0,
     ChainValid |-> FALSE, ChainBrokenAt |-> 0, AuditEntries |-> <<>>,
     ComplianceReport |-> <<>>, RecordCount |-> 0,
     TimeRange |-> [Earliest |-> ZeroTime, Latest |-> ZeroTime],
     Attestation |-> <<>>]

NoExport ==
    [pc |-> "idle", gatewayID |-> "", secret |-> "", compliance |-> <<>>,
     entries |-> <<>>, chainLen |-> 0, pkg |-> NoPackage, changed |-> ""]

NoAppend == [pc |-> "idle", runID |-> "", recordJSON |-> "", entry |-> NoEntry]

ChainInit ==
    /\ ac = NewAuditChain("test-signing-key-2025")
    /\ mu = 0
    /\ app = [a \in Appenders |-> NoAppend]
    /\ tamper = NoTamper
    /\ exp = NoExport

\* ac.mu.Lock() returns once no goroutine holds the mutex.
MutexAlwaysFree(holder) == TRUE
MutexFree(holder) == holder = 0

\* Append is called and takes the mutex.
AppendLock(a) ==
    /\ app[a].pc = "idle"
    /\ MutexFree(mu)
    /\ mu' = a
    /\ \E runID \in ChainRunIDs, recordJSON \in RecordJSONs :
        app' = [app EXCEPT ![a].pc = "seq", ![a].runID = runID,
                           ![a].recordJSON = recordJSON]
    /\ UNCHANGED ac
    /\ UNCHANGED <<tamper, exp, proxyVars>>

\* ac.seq++
AppendSeq(a) ==
    /\ app[a].pc = "seq"
    /\ ac' = [ac EXCEPT !.seq = @ + 1]
    /\ app' = [app EXCEPT ![a].pc = "entry"]
    /\ UNCHANGED mu
    /\ UNCHANGED <<tamper, exp, proxyVars>>

\* The entry is built from ac.seq and ac.last, and signed.
AppendEntry(a) ==
    /\ app[a].pc = "entry"
    /\ LET entry == [Sequence |-> ac.seq, RunID |-> app[a].runID,
                     RecordHash |-> sha256Hex(app[a].recordJSON),
                     PrevHash |-> ac.last, Signature |-> NoHash,
                     Timestamp |-> now]
       IN  app' = [app EXCEPT ![a].pc = "last",
                       ![a].entry = [entry EXCEPT
                                        !.Signature = sign(ac.secret, entry)]]
    /\ UNCHANGED <<ac, mu>>
    /\ UNCHANGED <<tamper, exp, proxyVars>>

\* ac.last = sha256Hex(entryJSON)
AppendLast(a) ==
    /\ app[a].pc = "last"
    /\ ac' = [ac EXCEPT !.last = sha256Hex(Marshal(app[a].entry))]
    /\ app' = [app EXCEPT ![a].pc = "append"]
    /\ UNCHANGED mu
    /\ UNCHANGED <<tamper, exp, proxyVars>>

\* ac.entries = append(ac.entries, entry); return, releasing the mutex.
AppendReturn(a) ==
    /\ app[a].pc = "append"
    /\ ac' = [ac EXCEPT !.entries = Append(@, app[a].entry)]
    /\ mu' = 0
    /\ app' = [app EXCEPT ![a].pc = "done"]
    /\ UNCHANGED <<tamper, exp, proxyVars>>

\* A loop of Verify that checks the links only.
RECURSIVE VerifyLinksFrom(_, _, _, _)
VerifyLinksFrom(secret, entries, i, prevHash) ==
    IF i > Len(entries) THEN [valid |-> TRUE, brokenAt |-> 0]
    ELSE LET entry == entries[i]
         IN  IF entry.PrevHash # prevHash
             THEN [valid |-> FALSE, brokenAt |-> entry.Sequence]
             ELSE VerifyLinksFrom(secret, entries, i + 1,
                                  sha256Hex(Marshal(entry)))

\* The loop of Verify from entry i on: [valid, brokenAt].
RECURSIVE VerifyFrom(_, _, _, _)
VerifyFrom(secret, entries, i, prevHash) ==
    IF i > Len(entries) THEN [valid |-> TRUE, brokenAt |-> 0]
    ELSE LET entry == entries[i]
         IN  IF entry.PrevHash # prevHash
             THEN [valid |-> FALSE, brokenAt |-> entry.Sequence]
             ELSE IF entry.Signature # sign(secret, entry)
             THEN [valid |-> FALSE, brokenAt |-> entry.Sequence]
             ELSE VerifyFrom(secret, entries, i + 1, sha256Hex(Marshal(entry)))

\* AuditChain.Verify
Verify(chain) ==
    IF Len(chain.entries) = 0 THEN [valid |-> TRUE, brokenAt |-> 0]
    ELSE VerifyFrom(chain.secret, chain.entries, 1, NoHash)

\* AuditChain.Len
ChainLen(chain) == chain.seq

\* The values a modification can put in a field of an entry: garbage, or
\* what another place of the chain holds.
TamperValues(entries, field) ==
    IF field = "Sequence" THEN 0..(Len(entries) + 1)
    ELSE IF field = "RunID" THEN ChainRunIDs \cup {"run-tampered"}
    ELSE IF field = "RecordHash"
    THEN {<<"tampered-hash">>} \cup {entries[j].RecordHash : j \in DOMAIN entries}
    ELSE IF field = "PrevHash"
    THEN {NoHash, <<"tampered-hash">>}
         \cup {entries[j].PrevHash : j \in DOMAIN entries}
    ELSE IF field = "Signature"
    THEN {<<"tampered-hash">>} \cup {entries[j].Signature : j \in DOMAIN entries}
    ELSE {entries[j].Timestamp + 1 : j \in DOMAIN entries}

ChainFields ==
    {"Sequence", "RunID", "RecordHash", "PrevHash", "Signature", "Timestamp"}

\* A stored entry is modified in place, as TestChainVerifyTampered does
\* under the mutex: one field of one entry gets another value.
Tamper(i, field) ==
    /\ mu = 0
    /\ tamper = NoTamper
    /\ i \in DOMAIN ac.entries
    /\ \E value \in TamperValues(ac.entries, field) :
        /\ value # ac.entries[i][field]
        /\ ac' = [ac EXCEPT !.entries[i][field] = value]
    /\ tamper' = [index |-> i, field |-> field]
    /\ UNCHANGED <<mu, app, exp, proxyVars>>

ChainNext ==
    \/ \E a \in Appenders : AppendLock(a)
    \/ \E a \in Appenders : AppendSeq(a)
    \/ \E a \in Appenders : AppendEntry(a)
    \/ \E a \in Appenders : AppendLast(a)
    \/ \E a \in Appenders : AppendReturn(a)

(***************************************************************************)
(* The replay engine.                                                      *)
(***************************************************************************)
\* Blobs of the vault: a body with the text of its assistant message.  The
\* nil slice is NoData.
Blob(kind, content) == [Kind |-> kind, Content |-> content]
NoData == Blob("nil", <<>>)
RequestData == Blob("request", PromptLoop)
ResponseData == Blob("response", <<"a", "flight", "recorder", "captures", "data">>)
AlteredData == Blob("altered", <<"completely", "different", "answer">>)

\* vault.Store's checksum of data: "sha256:" and the digest in hex.
Checksum(data) == <<"sha256:", data>>

\* A VerifyChecksum that accepts any data.
VerifyChecksumAny(data, expected) == TRUE

\* vault.VerifyChecksum
VerifyChecksum(data, expected) == Checksum(data) = expected

\* extractKey: "vault://bucket/key" gives "key", "" gives "".
NoKey == <<>>
extractKey(uri) == IF uri = NoRef THEN NoKey ELSE <<uri[2], uri[3]>>

\* Client.Fetch: the bytes under the key, or an error.
Unavailable == Blob("unavailable", <<>>)
Fetch(blobs, key) ==
    IF key \in DOMAIN blobs /\ blobs[key] # Unavailable
    THEN [data |-> blobs[key], err |-> FALSE]
    ELSE [data |-> NoData, err |-> TRUE]

\* extractContent: choices[0].message.content of a body.
extractContent(data) == data.Content

\* tokenSet: the lowercased words of a text, as strings.Fields splits it.
tokenSet(s) == {ToLower(Fields(s)[i]) : i \in DOMAIN Fields(s)}

\* tokenSimilarity, as the fraction <<numerator, denominator>>.
tokenSimilarity(a, b) ==
    LET setA == tokenSet(a)
        setB == tokenSet(b)
        intersection == Cardinality({x \in setA : x \in setB})
        union == Cardinality(setA) + Cardinality({x \in setB : x \notin setA})
    IN  IF a = <<>> /\ b = <<>> THEN <<1, 1>>
        ELSE IF a = <<>> \/ b = <<>> THEN <<0, 1>>
        ELSE IF union = 0 THEN <<1, 1>>
        ELSE <<intersection, union>>

\* The run a replay is made of, and the sides of its record.
ReplayRunID == 1
RequestSide == [Ref |-> {NoRef, VaultURI(ReplayRunID, "request.json")},
                Checksum |-> {NoHash, Checksum(RequestData)}]
ResponseSide == [Ref |-> {NoRef, VaultURI(ReplayRunID, "response.json")},
                 Checksum |-> {NoHash, Checksum(ResponseData)}]

\* The AIR records a replay is given: vault.Store returns the URI and the
\* checksum of a blob together, and writeAIRRecord copies both.
ReplayRecords ==
    {rec \in [RunID : {ReplayRunID},
              RequestVaultRef : RequestSide.Ref,
              RequestChecksum : RequestSide.Checksum,
              ResponseVaultRef : ResponseSide.Ref,
              ResponseChecksum : ResponseSide.Checksum] :
        /\ rec.RequestVaultRef = NoRef => rec.RequestChecksum = NoHash
        /\ rec.ResponseVaultRef = NoRef => rec.ResponseChecksum = NoHash}

\* What the vault holds when the replay runs.
ReplayKeys == {<<ReplayRunID, "request.json">>, <<ReplayRunID, "response.json">>}
ReplayVaults ==
    {blobs \in [ReplayKeys -> {RequestData, ResponseData, AlteredData, Unavailable}] :
        /\ blobs[<<ReplayRunID, "request.json">>] # ResponseData
        /\ blobs[<<ReplayRunID, "response.json">>] # RequestData}

\* What the provider does with the replayed request.
ProviderAnswers == {ResponseData, AlteredData, Unavailable}

NoResult == [Similarity |-> <<0, 1>>, Drift |-> FALSE]
NoReplay == [pc |-> "idle", rec |-> [RunID |-> 0], blobs |-> <<>>,
             reqData |-> NoData, originalResp |-> NoData, sent |-> <<>>,
             err |-> "", result |-> NoResult]

ReplayInit ==
    rp \in {[NoReplay EXCEPT !.pc = "fetch_request", !.rec = rec,
                             !.blobs = blobs] :
                rec \in ReplayRecords, blobs \in ReplayVaults}

\* A step of Run ends the replay with an error.
ReplayFail(msg) == rp' = [rp EXCEPT !.pc = "done", !.err = msg]

\* Run, up to the request's checksum.
RunFetchRequest ==
    /\ rp.pc = "fetch_request"
    /\ LET reqKey == extractKey(rp.rec.RequestVaultRef)
           got == Fetch(rp.blobs, reqKey)
       IN  IF reqKey = NoKey
           THEN ReplayFail("replay: no request vault ref in AIR record")
           ELSE IF got.err THEN ReplayFail("replay: fetch request")
           ELSE IF /\ rp.rec.RequestChecksum # NoHash
                   /\ ~VerifyChecksum(got.data, rp.rec.RequestChecksum)
           THEN rp' = [rp EXCEPT !.pc = "done", !.reqData = got.data,
                          !.err = "replay: request checksum mismatch (tampered?)"]
           ELSE rp' = [rp EXCEPT !.pc = "fetch_response", !.reqData = got.data]
    /\ UNCHANGED <<gatewayVars, tk, rc, call, fed, sr, va>>

\* Run, from the response's key to its checksum.
RunFetchResponse ==
    /\ rp.pc = "fetch_response"
    /\ LET respKey == extractKey(rp.rec.ResponseVaultRef)
           got == Fetch(rp.blobs, respKey)
       IN  IF respKey = NoKey THEN rp' = [rp EXCEPT !.pc = "provider"]
           ELSE IF got.err THEN ReplayFail("replay: fetch response")
           ELSE IF /\ rp.rec.ResponseChecksum # NoHash
                   /\ ~VerifyChecksum(got.data, rp.rec.ResponseChecksum)
           THEN rp' = [rp EXCEPT !.pc = "done", !.originalResp = got.data,
                          !.err = "replay: response checksum mismatch (tampered?)"]
           ELSE rp' = [rp EXCEPT !.pc = "provider", !.originalResp = got.data]
    /\ UNCHANGED <<gatewayVars, tk, rc, call, fed, sr, va>>

\* Run, from http.DefaultClient.Do to its return: the request's bytes go to
\* the provider, and the answer is compared with the original response.
RunProvider ==
    /\ rp.pc = "provider"
    /\ \E replayBody \in ProviderAnswers :
        LET similarity == tokenSimilarity(extractContent(rp.originalResp),
                                          extractContent(replayBody))
        IN  rp' = IF replayBody = Unavailable
                  THEN [rp EXCEPT !.pc = "done", !.err = "replay: upstream",
                                  !.sent = Append(@, rp.reqData)]
                  ELSE [rp EXCEPT !.pc = "done",
                                  !.sent = Append(@, rp.reqData),
                                  !.result = [Similarity |-> similarity,
                                              Drift |-> ~ScoreAtLeast(similarity, 80)]]
    /\ UNCHANGED <<gatewayVars, tk, rc, call, fed, sr, va>>

ReplayNext == RunFetchRequest \/ RunFetchResponse \/ RunProvider

(***************************************************************************)
(* The performance tracker.                                                *)
(***************************************************************************)
\* The cap of ModelStats.Latencies (10,000 in the code), scaled down.
LatencyCap == 2
\* Goroutines calling RecordCall.
MaxCallers == 3
Callers == 1..MaxCallers

\* map[string]int64 with one more count under the key.
Incremented(counts, key) ==
    [k \in DOMAIN counts \cup {key} |->
        IF k = key
        THEN (IF k \in DOMAIN counts THEN counts[k] ELSE 0) + 1
        ELSE counts[k]]

\* The ModelStats that RecordCall creates for a model it has not seen.
NewModelStats(model) ==
    [Model |-> model, RequestCount |-> 0, SuccessCount |-> 0,
     ErrorCount |-> 0, TotalTokens |-> 0, TokensPrompt |-> 0,
     TokensCompletion |-> 0, Latencies |-> <<>>, ErrorsByType |-> <<>>,
     LastUpdated |-> ZeroTime]

\* The arguments of a RecordCall.
CallArgs(model, durationMS, promptTokens, completionTokens, totalTokens, status, errorType) ==
    [model |-> model, durationMS |-> durationMS,
     promptTokens |-> promptTokens, completionTokens |-> completionTokens,
     totalTokens |-> totalTokens, status |-> status, errorType |-> errorType]

\* The slot of the ring that a sample goes to once the buffer is full: the
\* slice is indexed from 0, the sequence from 1.
RingSlot(requestCount) == (requestCount % LatencyCap) + 1

\* RecordCall, between the lookup of the model and the unlock: what it
\* makes of the ModelStats it found.
UpdateStats(ms, a, clock) ==
    LET requestCount == ms.RequestCount + 1
    IN  [ms EXCEPT
            !.RequestCount = requestCount,
            !.TotalTokens = @ + a.totalTokens,
            !.TokensPrompt = @ + a.promptTokens,
            !.TokensCompletion = @ + a.completionTokens,
            !.LastUpdated = clock,
            !.Latencies = IF Len(@) < LatencyCap
                          THEN Append(@, a.durationMS)
                          ELSE [@ EXCEPT ![RingSlot(requestCount)] = a.durationMS],
            !.SuccessCount = IF a.status = "success" THEN @ + 1 ELSE @,
            !.ErrorCount = IF a.status = "success" THEN @ ELSE @ + 1,
            !.ErrorsByType = IF a.status # "success" /\ a.errorType # ""
                             THEN Incremented(@, a.errorType) ELSE @]

\* pt.models[model], or the ModelStats created for it.
LookupStats(models, model) ==
    IF model \in DOMAIN models THEN models[model] ELSE NewModelStats(model)

\* pt.models with the ModelStats of a model set.
WithStats(models, model, ms) ==
    [m \in DOMAIN models \cup {model} |-> IF m = model THEN ms ELSE models[m]]

\* RecordCall as one call.
RecordCall(models, a, clock) ==
    WithStats(models, a.model, UpdateStats(LookupStats(models, a.model), a, clock))

\* percentileIndex
percentileIndex(n, pct) ==
    LET idx == (n * pct) \div 100
    IN  IF idx >= n THEN n - 1 ELSE idx

\* ModelStats.ComputeLatency: the p95 of the stored durations.
P95MS(ms) ==
    LET sorted == SortSeq(ms.Latencies, LAMBDA x, y : x < y)
        n == Len(sorted)
    IN  IF n = 0 THEN 0 ELSE sorted[percentileIndex(n, 95) + 1]

\* ModelStats.ComputeErrorRate, as the fraction <<numerator, denominator>>.
ComputeErrorRate(ms) ==
    IF ms.RequestCount = 0 THEN <<0, 1>> ELSE <<ms.ErrorCount, ms.RequestCount>>

\* PerformanceTracker.ErrorRate
ErrorRate(models, model) ==
    IF model \notin DOMAIN models THEN <<0, 1>>
    ELSE ComputeErrorRate(models[model])

\* PerformanceTracker.LatencyP95
LatencyP95(models, model) ==
    IF model \notin DOMAIN models THEN 0 ELSE P95MS(models[model])

\* A *PerformanceTracker: nil, or a tracker with its models.
NilTracker == [isNil |-> TRUE, models |-> <<>>]
NewPerformanceTracker == [isNil |-> FALSE, models |-> <<>>]

\* sync.RWMutex.Lock that never waits.
RWMutexAlwaysFree(holder) == TRUE

\* sync.RWMutex.Lock returns when nobody holds the lock.
RWMutexFree(holder) == holder = 0

\* The tracker shared by the callers: its models, the goroutine holding
\* pt.mu (0 when free) and, for the properties, the callers in the order
\* in which their calls took effect.
NoTracker == [models |-> <<>>, mu |-> 0, served |-> <<>>]
NoCaller == [pc |-> "idle", args |-> CallArgs("", 0, 0, 0, 0, "", ""),
             ms |-> NewModelStats("")]

\* The calls the goroutines make: caller g reports a duration of g * 100 ms
\* and g prompt tokens.
CallerArgs(g) ==
    {CallArgs(model, g * 100, g, 3, g + 3, outcome[1], outcome[2]) :
        model \in {"gpt-4", "gpt-4o"},
        outcome \in {<<"success", "">>, <<"error", "server_error">>,
                     <<"error", "">>}}

TrackerInit ==
    /\ tk = NoTracker
    /\ rc \in {f \in [Callers -> {[NoCaller EXCEPT !.pc = "call", !.args = a] :
                                    a \in UNION {CallerArgs(g) : g \in Callers}}] :
                  \A g \in Callers : f[g].args \in CallerArgs(g)}

\* RecordCall: pt.mu.Lock().
RecordCallLock(g) ==
    /\ rc[g].pc = "call"
    /\ RWMutexFree(tk.mu)
    /\ tk' = [tk EXCEPT !.mu = g]
    /\ rc' = [rc EXCEPT ![g].pc = "locked"]
    /\ UNCHANGED <<gatewayVars, rp, call, fed, sr, va>>

\* RecordCall: the ModelStats of the model is looked up or created, and its
\* counters are read.
RecordCallLoad(g) ==
    /\ rc[g].pc = "locked"
    /\ rc' = [rc EXCEPT ![g].pc = "loaded",
                        ![g].ms = LookupStats(tk.models, rc[g].args.model)]
    /\ UNCHANGED <<gatewayVars, rp, tk, call, fed, sr, va>>

\* RecordCall: the counters and the latencies are written, and the
\* deferred Unlock runs.
RecordCallStore(g) ==
    /\ rc[g].pc = "loaded"
    /\ tk' = [tk EXCEPT
                !.models = WithStats(@, rc[g].args.model,
                                     UpdateStats(rc[g].ms, rc[g].args, now)),
                !.served = Append(@, g),
                !.mu = 0]
    /\ rc' = [rc EXCEPT ![g].pc = "done"]
    /\ UNCHANGED <<gatewayVars, rp, call, fed, sr, va>>

TrackerNext ==
    \/ \E g \in Callers : RecordCallLock(g)
    \/ \E g \in Callers : RecordCallLoad(g)
    \/ \E g \in Callers : RecordCallStore(g)

(***************************************************************************)
(* The model router.                                                       *)
(***************************************************************************)
\* Thresholds are float64 in the code; here they are counted in tenths, so
\* that 0.5 is 5 and 100.5 is 1005.
Tenths == 10

\* int64(rule.Threshold): the fraction is dropped.
Int64(threshold) == threshold \div Tenths

\* rate > rule.Threshold, the rate a fraction, the threshold in tenths.
RateAbove(rate, threshold) == rate[1] * Tenths > threshold * rate[2]

RoutingRule(fromModel, toModel, condition, threshold, enabled) ==
    [FromModel |-> fromModel, ToModel |-> toModel, Condition |-> condition,
     Threshold |-> threshold, Enabled |-> enabled]

RoutingDecision(originalModel, routedModel, rule) ==
    [OriginalModel |-> originalModel, RoutedModel |-> routedModel,
     Rule |-> rule]

\* The body of the loop of EvaluateRouting: does the rule match?
RuleMatched(rule, tracker, model) ==
    /\ rule.Enabled /\ rule.FromModel = model
    /\ CASE rule.Condition = "error_rate" ->
                RateAbove(ErrorRate(tracker.models, model), rule.Threshold)
         [] rule.Condition = "latency_p95" ->
                LatencyP95(tracker.models, model) > Int64(rule.Threshold)
         [] OTHER -> FALSE

\* The loop of EvaluateRouting from rule i on.
RECURSIVE RouteFrom(_, _, _, _)
RouteFrom(rules, i, tracker, model) ==
    IF i > Len(rules) THEN RoutingDecision(model, model, "")
    ELSE IF RuleMatched(rules[i], tracker, model)
    THEN RoutingDecision(model, rules[i].ToModel, rules[i].Condition)
    ELSE RouteFrom(rules, i + 1, tracker, model)

\* An EvaluateRouting in which the last matching rule wins.
RECURSIVE RouteLastFrom(_, _, _, _)
RouteLastFrom(rules, i, tracker, model) ==
    IF i < 1 THEN RoutingDecision(model, model, "")
    ELSE IF RuleMatched(rules[i], tracker, model)
    THEN RoutingDecision(model, rules[i].ToModel, rules[i].Condition)
    ELSE RouteLastFrom(rules, i - 1, tracker, model)
EvaluateRoutingLast(router, tracker, model) ==
    IF ~router.Enabled \/ tracker.isNil THEN RoutingDecision(model, model, "")
    ELSE RouteLastFrom(router.Rules, Len(router.Rules), tracker, model)

\* EvaluateRouting
EvaluateRouting(router, tracker, model) ==
    IF ~router.Enabled \/ tracker.isNil THEN RoutingDecision(model, model, "")
    ELSE RouteFrom(router.Rules, 1, tracker, model)

\* The rules of a router, and the routers.
MaxRules == 2
RoutingRules ==
    {RoutingRule(fromModel, kind[2], kind[1], kind[3], enabled) :
        fromModel \in {"gpt-4", "claude-3"},
        kind \in {<<"error_rate", "gpt-4o", 5>>,
                  <<"latency_p95", "gpt-3.5-turbo", 1000>>,
                  <<"latency_p95", "gpt-3.5-turbo", 1005>>},
        enabled \in BOOLEAN}
RuleLists ==
    UNION {[1..n -> RoutingRules] : n \in 0..MaxRules}
Routers == [Enabled : BOOLEAN, Rules : RuleLists]

\* The trackers a router is given: nil, new, or after some calls.
MaxRecorded == 2
RecordedCalls ==
    {CallArgs("gpt-4", 100, 0, 0, 0, "success", ""),
     CallArgs("gpt-4", 101, 0, 0, 0, "success", ""),
     CallArgs("gpt-4", 101, 0, 0, 0, "error", "server_error"),
     CallArgs("claude-3", 101, 0, 0, 0, "error", "server_error")}
RECURSIVE TrackerAfter(_, _)
TrackerAfter(calls, i) ==
    IF i = 0 THEN <<>>
    ELSE RecordCall(TrackerAfter(calls, i - 1), calls[i], 0)
Trackers ==
    {NilTracker} \cup
    {[isNil |-> FALSE, models |-> TrackerAfter(calls, Len(calls))] :
        calls \in UNION {[1..n -> RecordedCalls] : n \in 0..MaxRecorded}}

\* A direct call of a function of a package: its arguments, and its result
\* once it has returned.
NoCall == [fn |-> "", args |-> <<>>, returned |-> FALSE, result |-> <<>>]

RouterInit ==
    call \in {[fn |-> "EvaluateRouting",
               args |-> [router |-> router, tracker |-> tracker, model |-> "gpt-4"],
               returned |-> FALSE,
               result |-> RoutingDecision("", "", "")] :
                  router \in Routers, tracker \in Trackers}

CallEvaluateRouting ==
    /\ call.fn = "EvaluateRouting" /\ ~call.returned
    /\ call' = [call EXCEPT
                  !.returned = TRUE,
                  !.result = EvaluateRouting(call.args.router, call.args.tracker,
                                             call.args.model)]
    /\ UNCHANGED <<gatewayVars, rp, tk, rc, fed, sr, va>>

RouterNext == CallEvaluateRouting

(***************************************************************************)
(* The similarity of two texts, called directly.                           *)
(***************************************************************************)
Texts == {<<>>, <<" ">>, <<"hello">>, <<"hello", "world">>,
          <<"world", "hello">>, <<"My", "SSN">>, <<"my", "ssn">>,
          <<"the", "quick", "brown", "fox">>, <<"the", "slow", "red", "fox">>}

SimilarityInit ==
    call \in {[fn |-> "jaccardSimilarity", args |-> [a |-> a, b |-> b],
               returned |-> FALSE, result |-> <<0, 1>>] :
                  a \in Texts, b \in Texts}

CallJaccardSimilarity ==
    /\ call.fn = "jaccardSimilarity" /\ ~call.returned
    /\ call' = [call EXCEPT
                  !.returned = TRUE,
                  !.result = jaccardSimilarity(call.args.a, call.args.b)]
    /\ UNCHANGED <<gatewayVars, rp, tk, rc, fed, sr, va>>

SimilarityNext == CallJaccardSimilarity

(***************************************************************************)
(* The failure taxonomy, called directly.                                  *)
(***************************************************************************)
FailureRateLimit == "rate_limit"
FailureContextLength == "context_length"
FailureInvalidReq == "invalid_request"
FailureServerError == "server_error"
FailureTimeout == "timeout"
FailureContentFilter == "content_filter"
FailureAuthError == "auth_error"
FailureUnknown == "unknown"

\* An error body is a sequence of phrases.  For each substring the code
\* looks for, the phrases of the inputs that contain it.
Containing(sub) ==
    CASE sub = "timeout" -> {"request timeout"}
      [] sub = "deadline exceeded" -> {"context deadline exceeded"}
      [] sub = "context deadline" -> {"context deadline exceeded"}
      [] sub = "context_length" -> {"context_length_exceeded"}
      [] sub = "maximum context" -> {"maximum context exceeded"}
      [] sub = "max_tokens" -> {"max_tokens is too large"}
      [] sub = "safety" -> {"safety system"}
      [] sub = "content_policy" -> {"content_policy_violation"}
      [] OTHER -> {}

\* containsAny on a lowercased body.
containsAny(s, substrs) ==
    \E i \in DOMAIN s : \E sub \in substrs : s[i] \in Containing(sub)

TimeoutTexts == {"timeout", "deadline exceeded", "context deadline"}
ContextLengthTexts == {"context_length", "context length", "max_tokens",
                       "maximum context", "token limit"}
ContentFilterTexts == {"content_policy", "content policy", "content filter",
                       "filtered", "violates", "safety"}

\* A ClassifyFailure that reads the body before the status code.
ClassifyFailureBodyFirst(statusCode, errorBody) ==
    LET lower == [i \in DOMAIN errorBody |-> ToLower(errorBody[i])]
    IN  IF containsAny(lower, TimeoutTexts) THEN FailureTimeout
        ELSE IF statusCode = 429 THEN FailureRateLimit
        ELSE IF statusCode \in {401, 403} THEN FailureAuthError
        ELSE IF statusCode \in {500, 502, 503} THEN FailureServerError
        ELSE IF statusCode = 504 THEN FailureTimeout
        ELSE IF statusCode >= 400 /\ statusCode < 500 THEN FailureInvalidReq
        ELSE FailureUnknown

\* ClassifyFailure
ClassifyFailure(statusCode, errorBody) ==
    LET lower == [i \in DOMAIN errorBody |-> ToLower(errorBody[i])]
    IN  IF statusCode = 429 THEN FailureRateLimit
        ELSE IF statusCode \in {401, 403} THEN FailureAuthError
        ELSE IF statusCode \in {500, 502, 503} THEN FailureServerError
        ELSE IF statusCode = 504 THEN FailureTimeout
        ELSE IF containsAny(lower, TimeoutTexts) THEN FailureTimeout
        ELSE IF statusCode = 400
        THEN IF containsAny(lower, ContextLengthTexts) THEN FailureContextLength
             ELSE IF containsAny(lower, ContentFilterTexts) THEN FailureContentFilter
             ELSE FailureInvalidReq
        ELSE IF statusCode >= 400 /\ statusCode < 500 THEN FailureInvalidReq
        ELSE FailureUnknown

\* The status codes and the error bodies ClassifyFailure is called with.
StatusCodes == {0, 200, 302, 400, 401, 403, 404, 422, 429, 500, 501, 502,
                503, 504, 599}
ErrorBodies ==
    {<<>>, <<"Request Timeout">>, <<"context deadline exceeded">>,
     <<"context_length_exceeded">>, <<"Maximum Context exceeded">>,
     <<"max_tokens is too large">>, <<"safety system">>,
     <<"content_policy_violation">>, <<"bad request">>,
     <<"context_length_exceeded", "safety system">>,
     <<"content_policy_violation", "max_tokens is too large">>,
     <<"max_tokens is too large", "Request Timeout">>}

ClassifyInit ==
    call \in {[fn |-> "ClassifyFailure",
               args |-> [statusCode |-> statusCode, errorBody |-> errorBody],
               returned |-> FALSE, result |-> ""] :
                  statusCode \in StatusCodes, errorBody \in ErrorBodies}

CallClassifyFailure ==
    /\ call.fn = "ClassifyFailure" /\ ~call.returned
    /\ call' = [call EXCEPT
                  !.returned = TRUE,
                  !.result = ClassifyFailure(call.args.statusCode,
                                             call.args.errorBody)]
    /\ UNCHANGED <<gatewayVars, rp, tk, rc, fed, sr, va>>

ClassifyNext == CallClassifyFailure

(***************************************************************************)
(* The compliance evaluation, called directly.                             *)
(***************************************************************************)
ControlPass == "pass"
ControlFail == "fail"
ControlPartial == "partial"

\* boolStatus
boolStatus(enabled) == IF enabled THEN ControlPass ELSE ControlFail

\* A chainStatus that fails an empty chain.
chainStatusFail(chainLen) == IF chainLen > 0 THEN ControlPass ELSE ControlFail

\* chainStatus
chainStatus(chainLen) == IF chainLen > 0 THEN ControlPass ELSE ControlPartial

\* conditionalEvidence: which of the two texts of a control is reported.
conditionalEvidence(condition, pass, fail) == IF condition THEN pass ELSE fail

\* A Control; its name and description are constant texts and left out, its
\* evidence is "met" or "unmet" for the two texts the code chooses from.
Control(id, framework, status, evidence, gatewayFeature) ==
    [ID |-> id, Framework |-> framework, Status |-> status,
     Evidence |-> evidence, GatewayFeature |-> gatewayFeature]

\* evaluateSOC2
evaluateSOC2(chainLen, hasVault, hasGuardrails, hasAnalytics) ==
    <<Control("CC6.1", "SOC2", ControlPass, "met", "Gateway Auth"),
      Control("CC6.3", "SOC2", boolStatus(hasGuardrails),
              conditionalEvidence(hasGuardrails, "met", "unmet"), "Prevention Layer"),
      Control("CC7.2", "SOC2", boolStatus(hasGuardrails),
              conditionalEvidence(hasGuardrails, "met", "unmet"), "Detection Layer"),
      Control("CC7.3", "SOC2", boolStatus(hasVault),
              conditionalEvidence(hasVault, "met", "unmet"), "Visibility Layer"),
      Control("CC8.1", "SOC2", boolStatus(hasGuardrails),
              conditionalEvidence(hasGuardrails, "met", "unmet"), "Prevention Layer"),
      Control("CC4.1", "SOC2", chainStatus(chainLen),
              conditionalEvidence(chainLen > 0, "met", "unmet"), "Trust Layer"),
      Control("CC5.1", "SOC2", boolStatus(hasAnalytics),
              conditionalEvidence(hasAnalytics, "met", "unmet"), "Optimization Layer"),
      Control("CC7.4", "SOC2", boolStatus(hasGuardrails),
              conditionalEvidence(hasGuardrails, "met", "unmet"), "Detection Layer"),
      Control("CC2.1", "SOC2", ControlPass, "met", "Visibility Layer"),
      Control("A1.2", "SOC2", boolStatus(hasVault),
              conditionalEvidence(hasVault, "met", "unmet"), "Visibility Layer"),
      Control("CC6.6", "SOC2", boolStatus(hasGuardrails),
              conditionalEvidence(hasGuardrails, "met", "unmet"), "Prevention Layer"),
      Control("CC3.1", "SOC2", boolStatus(hasAnalytics),
              conditionalEvidence(hasAnalytics, "met", "unmet"), "Optimization Layer")>>

\* evaluateISO27001
evaluateISO27001(chainLen, hasVault, hasGuardrails, hasAnalytics) ==
    <<Control("A.12.4.1", "ISO27001", ControlPass, "met", "Visibility Layer"),
      Control("A.12.4.3", "ISO27001", ControlPass, "met", "Visibility Layer"),
      Control("A.14.2.2", "ISO27001", chainStatus(chainLen),
              conditionalEvidence(chainLen > 0, "met", "unmet"), "Trust Layer"),
      Control("A.18.1.3", "ISO27001", boolStatus(hasVault),
              conditionalEvidence(hasVault, "met", "unmet"), "Visibility Layer"),
      Control("A.9.1.1", "ISO27001", ControlPass, "met", "Gateway Auth"),
      Control("A.10.1.1", "ISO27001", chainStatus(chainLen),
              conditionalEvidence(chainLen > 0, "met", "unmet"), "Trust Layer"),
      Control("A.12.1.1", "ISO27001", boolStatus(hasGuardrails),
              conditionalEvidence(hasGuardrails, "met", "unmet"), "Detection Layer"),
      Control("A.16.1.2", "ISO27001", boolStatus(hasGuardrails),
              conditionalEvidence(hasGuardrails, "met", "unmet"), "Detection Layer"),
      Control("A.12.6.1", "ISO27001", boolStatus(hasAnalytics),
              conditionalEvidence(hasAnalytics, "met", "unmet"), "Optimization Layer"),
      Control("A.12.4.4", "ISO27001", ControlPass, "met", "Visibility Layer")>>

\* The first loop of EvaluateCompliance: the controls of the frameworks
\* up to the i-th.
RECURSIVE ControlsOf(_, _, _, _, _, _)
ControlsOf(frameworks, i, chainLen, hasVault, hasGuardrails, hasAnalytics) ==
    IF i = 0 THEN <<>>
    ELSE LET before == ControlsOf(frameworks, i - 1, chainLen, hasVault,
                                  hasGuardrails, hasAnalytics)
         IN  CASE frameworks[i] = "SOC2" ->
                    before \o evaluateSOC2(chainLen, hasVault, hasGuardrails,
                                           hasAnalytics)
               [] frameworks[i] = "ISO27001" ->
                    before \o evaluateISO27001(chainLen, hasVault, hasGuardrails,
                                               hasAnalytics)
               [] OTHER -> before

\* The second loop of EvaluateCompliance: the summary after i controls.
RECURSIVE Summarize(_, _)
Summarize(controls, i) ==
    IF i = 0
    THEN [TotalControls |-> Len(controls), Passing |-> 0, Failing |-> 0,
          Partial |-> 0]
    ELSE LET summary == Summarize(controls, i - 1)
         IN  CASE controls[i].Status = ControlPass ->
                    [summary EXCEPT !.Passing = @ + 1]
               [] controls[i].Status = ControlFail ->
                    [summary EXCEPT !.Failing = @ + 1]
               [] controls[i].Status = ControlPartial ->
                    [summary EXCEPT !.Partial = @ + 1]
               [] OTHER -> summary

\* EvaluateCompliance; the pass rate is the fraction <<numerator,
\* denominator>>, in percent.
EvaluateCompliance(frameworks, chainLen, hasVault, hasGuardrails, hasAnalytics) ==
    LET controls == ControlsOf(frameworks, Len(frameworks), chainLen, hasVault,
                               hasGuardrails, hasAnalytics)
        summary == Summarize(controls, Len(controls))
    IN  [GatewayVersion |-> "0.7",
         Frameworks |-> frameworks,
         Controls |-> controls,
         Summary |->
            [TotalControls |-> summary.TotalControls,
             Passing |-> summary.Passing,
             Failing |-> summary.Failing,
             Partial |-> summary.Partial,
             PassRate |-> IF summary.TotalControls > 0
                          THEN <<summary.Passing * 100, summary.TotalControls>>
                          ELSE <<0, 1>>]]

\* The frameworks asked for, and the lengths of the chain.
MaxFrameworks == 2
FrameworkLists ==
    UNION {[1..n -> {"SOC2", "ISO27001", "HIPAA"}] : n \in 0..MaxFrameworks}
MaxChainLen == 2

ComplianceInit ==
    call \in {[fn |-> "EvaluateCompliance",
               args |-> [frameworks |-> frameworks, chainLen |-> chainLen,
                         hasVault |-> hasVault, hasGuardrails |-> hasGuardrails,
                         hasAnalytics |-> hasAnalytics],
               returned |-> FALSE,
               result |-> EvaluateCompliance(<<>>, 0, FALSE, FALSE, FALSE)] :
                  frameworks \in FrameworkLists, chainLen \in 0..MaxChainLen,
                  hasVault \in BOOLEAN, hasGuardrails \in BOOLEAN,
                  hasAnalytics \in BOOLEAN}

CallEvaluateCompliance ==
    /\ call.fn = "EvaluateCompliance" /\ ~call.returned
    /\ call' = [call EXCEPT
                  !.returned = TRUE,
                  !.result = EvaluateCompliance(
                                call.args.frameworks, call.args.chainLen,
                                call.args.hasVault, call.args.hasGuardrails,
                                call.args.hasAnalytics)]
    /\ UNCHANGED <<gatewayVars, rp, tk, rc, fed, sr, va>>

ComplianceNext == CallEvaluateCompliance

(***************************************************************************)
(* The detection rules, called directly on a session.                      *)
(***************************************************************************)
\* A deployment in which every rule is on and triggers early: a budget of
\* 10 tokens, two similar prompts, two calls of a tool within 30 seconds,
\* two consecutive errors.
DetectConfig == [GuardConfig EXCEPT
    !.Budgets = [MaxSessionTokens |-> 10],
    !.LoopDetection = [SimilarPromptThreshold |-> 80, MaxSimilarPrompts |-> 2,
                       WindowSeconds |-> 60],
    !.ToolProtection = [MaxRepeatCalls |-> 2, RepeatWindowSeconds |-> 30],
    !.RetryProtection = [MaxConsecutiveErrors |-> 2]]

\* What a session has been through: calls of RecordRequest and of
\* RecordResponse.
RequestOp(promptText, toolNames) ==
    [op |-> "RecordRequest", promptText |-> promptText, toolNames |-> toolNames,
     tokens |-> 0, isError |-> FALSE]
ResponseOp(tokens, isError) ==
    [op |-> "RecordResponse", promptText |-> <<>>, toolNames |-> <<>>,
     tokens |-> tokens, isError |-> isError]
SessionOps ==
    {RequestOp(PromptLoop, <<>>), RequestOp(PromptLoop, <<"search">>),
     RequestOp(<<>>, <<"search">>),
     ResponseOp(10, FALSE), ResponseOp(0, TRUE), ResponseOp(10, TRUE)}
MaxScript == 3
Scripts == UNION {[1..n -> SessionOps] : n \in 0..MaxScript}

\* The session map after GetOrCreate and the first i calls of a script.
RECURSIVE StoreAfter(_, _, _, _)
StoreAfter(script, i, sessionID, clock) ==
    IF i = 0 THEN GetOrCreate(<<>>, sessionID, clock)
    ELSE LET store == StoreAfter(script, i - 1, sessionID, clock)
             o == script[i]
         IN  IF o.op = "RecordRequest"
             THEN RecordRequest(store, sessionID, o.promptText, o.toolNames, clock)
             ELSE RecordResponse(store, sessionID, o.tokens, o.isError)

EvaluateInit ==
    call \in {[fn |-> "Evaluate",
               args |-> [store |-> StoreAfter(script, Len(script), "s1", 0),
                         sessionID |-> sessionID, promptText |-> promptText,
                         toolNames |-> toolNames],
               returned |-> FALSE, result |-> NoViolation] :
                  script \in Scripts, sessionID \in {"s1", "s2"},
                  promptText \in {PromptLoop, PromptNone},
                  toolNames \in {<<>>, <<"search">>}}

CallEvaluate ==
    /\ call.fn = "Evaluate" /\ ~call.returned
    /\ call' = [call EXCEPT
                  !.returned = TRUE,
                  !.result = Evaluate(cfg, call.args.store, call.args.sessionID,
                                      call.args.promptText, call.args.toolNames,
                                      now)]
    /\ UNCHANGED <<gatewayVars, rp, tk, rc, fed, sr, va>>

EvaluateNext == CallEvaluate

(***************************************************************************)
(* The session Manager, called directly.                                   *)
(***************************************************************************)
\* Calls of RecordRequest with a prompt, and calls of RecordResponse, in
\* one behaviour.
MaxRecords == 22
MaxResponses == 5

\* The session the caller works on.
DriverSession == "s1"

\* The prompts the caller sends: the n-th is "prompt n".
NthPrompt(n) == <<"prompt", ToString(n)>>

\* What the caller has passed to the Manager: the prompts and the
\* responses recorded on the session since it was created, and the calls
\* made in all.
Feed(prompts, responses, requests, answered) ==
    [prompts |-> prompts, responses |-> responses, requests |-> requests,
     answered |-> answered]
ManagerInit == fed = Feed(<<>>, <<>>, 0, 0)

\* m.GetOrCreate(sessionID)
CallGetOrCreate ==
    /\ sessions' = GetOrCreate(sessions, DriverSession, now)
    /\ fed' = IF DriverSession \in DOMAIN sessions THEN fed
              ELSE Feed(<<>>, <<>>, fed.requests, fed.answered)
    /\ UNCHANGED <<cfg, now, nextRun, req, pc, loc, w, bg, alert, vault,
                   airFiles, airWrites, ac, mu, app, tamper, exp>>
    /\ UNCHANGED <<rp, tk, rc, call, sr, va>>

\* m.RecordRequest(sessionID, promptText, nil), with and without a prompt.
CallRecordRequest ==
    /\ fed.requests < MaxRecords
    /\ \E promptText \in {PromptNone, NthPrompt(fed.requests + 1)} :
        /\ sessions' = RecordRequest(sessions, DriverSession, promptText,
                                     <<>>, now)
        /\ fed' = IF promptText = PromptNone THEN fed
                  ELSE [fed EXCEPT
                          !.requests = @ + 1,
                          !.prompts = IF DriverSession \in DOMAIN sessions
                                      THEN Append(@, promptText) ELSE @]
    /\ UNCHANGED <<cfg, now, nextRun, req, pc, loc, w, bg, alert, vault,
                   airFiles, airWrites, ac, mu, app, tamper, exp>>
    /\ UNCHANGED <<rp, tk, rc, call, sr, va>>

\* m.RecordResponse(sessionID, tokens, isError)
CallRecordResponse ==
    /\ fed.answered < MaxResponses
    /\ \E tokens \in {0, 8}, isError \in BOOLEAN :
        /\ sessions' = RecordResponse(sessions, DriverSession, tokens, isError)
        /\ fed' = [fed EXCEPT
                      !.answered = @ + 1,
                      !.responses =
                          IF DriverSession \in DOMAIN sessions
                          THEN Append(@, [tokens |-> tokens, isError |-> isError])
                          ELSE @]
    /\ UNCHANGED <<cfg, now, nextRun, req, pc, loc, w, bg, alert, vault,
                   airFiles, airWrites, ac, mu, app, tamper, exp>>
    /\ UNCHANGED <<rp, tk, rc, call, sr, va>>

\* The Manager under a caller of RecordRequest, with its sweeper.
HistoryNext == CallGetOrCreate \/ CallRecordRequest \/ cleanupLoop \/ Tick

\* The Manager under a caller of RecordResponse, with its sweeper.
ResponseNext == CallGetOrCreate \/ CallRecordResponse \/ cleanupLoop \/ Tick

(***************************************************************************)
(* handleStreamingResponse, chunk by chunk.                                *)
(***************************************************************************)
\* The chunks an upstream body is made of, and the longest body.
MaxChunks == 3
Chunks == {"data: a", "data: b"}
StreamBodies == UNION {[1..n -> Chunks] : n \in 0..MaxChunks}

\* What resp.Body.Read(buf) returns: n bytes and an error, "" for nil.
\* io.EOF comes when the body is through; any other error is a failed read
\* of the upstream, which is also what a read gets once the request's
\* context is cancelled because the client went away.  Bytes may come
\* together with the error.
ReadResults(rest) ==
    IF rest = <<>>
    THEN {[n |-> 0, err |-> "EOF"], [n |-> 0, err |-> "error"]}
    ELSE {[n |-> 1, err |-> ""], [n |-> 1, err |-> "error"],
          [n |-> 0, err |-> "error"]}
         \cup (IF Len(rest) = 1 THEN {[n |-> 1, err |-> "EOF"]} ELSE {})

\* fullResponse.Write(buf[:n]) with everything written and with only the
\* latest chunk kept.
BufferKeepLast(buffer, p) == p

BufferWrite(buffer, p) == buffer \o p

\* fullResponse.Bytes(): nil when nothing was ever written.
NilBytes == <<>>
Bytes(buffer) == IF buffer = <<>> THEN NilBytes ELSE buffer

\* The handler before its headers are written.
NoStream == [pc |-> "none", body |-> <<>>, rest |-> <<>>, connected |-> TRUE,
             fullResponse |-> <<>>, client |-> <<>>, read |-> <<>>,
             err |-> "", scheduled |-> 0, hasResp |-> FALSE,
             respBody |-> NilBytes]

\* The handler at the top of its loop: the headers are out, the body of the
\* upstream response is still to come.
StreamInit ==
    \E body \in StreamBodies :
        sr = [NoStream EXCEPT !.pc = "loop", !.body = body, !.rest = body]

\* The client goes away while the response is streamed.
ClientDisconnect ==
    /\ sr.pc = "loop"
    /\ sr.connected
    /\ sr' = [sr EXCEPT !.connected = FALSE]
    /\ UNCHANGED <<gatewayVars, rp, tk, rc, call, fed, va>>

\* One turn of the loop: Read, then the two writes, then the break.  A
\* write to a client that went away fails, and the failure is not looked at.
StreamRead ==
    /\ sr.pc = "loop"
    /\ \E res \in ReadResults(sr.rest) :
        LET p == SubSeq(sr.rest, 1, res.n)
        IN  sr' = [sr EXCEPT
                     !.rest = SubSeq(@, res.n + 1, Len(@)),
                     !.read = @ \o p,
                     !.fullResponse = IF res.n > 0 THEN BufferWrite(@, p) ELSE @,
                     !.client = IF res.n > 0 /\ sr.connected THEN @ \o p ELSE @,
                     !.err = res.err,
                     !.pc = IF res.err # "" THEN "record" ELSE "loop"]
    /\ UNCHANGED <<gatewayVars, rp, tk, rc, call, fed, va>>

\* After the loop: go backgroundRecord(..., respBytes, ...).
StreamRecord ==
    /\ sr.pc = "record"
    /\ sr' = [sr EXCEPT !.scheduled = @ + 1,
                        !.hasResp = Bytes(sr.fullResponse) # NilBytes,
                        !.respBody = Bytes(sr.fullResponse),
                        !.pc = "returned"]
    /\ UNCHANGED <<gatewayVars, rp, tk, rc, call, fed, va>>

StreamNext == ClientDisconnect \/ StreamRead \/ StreamRecord

(***************************************************************************)
(* VerifyAttestation called from several goroutines on one package.        *)
(***************************************************************************)
MaxVerifiers == 2
Verifiers == 1..MaxVerifiers

\* The locals of one call: where it is, savedAttestation, expected, and
\* what it returned.
NoVerifier == [pc |-> "idle", saved |-> <<>>, expected |-> <<>>,
               result |-> FALSE]

\* The package the callers share (pkg), as it was handed to them (given),
\* the secret they verify with, and their locals.
NoVerify == [pkg |-> NoPackage, given |-> NoPackage, secret |-> "",
             v |-> [i \in Verifiers |-> NoVerifier]]

(***************************************************************************)
(* The token budget of a configuration built directly or loaded.           *)
(***************************************************************************)
DefaultMaxSessionTokens == 80000

\* The budgets section of a guardrails file: max_session_tokens is left out
\* ({}) or given ({n}).  yaml.Unmarshal leaves the field of a key that is
\* left out at its zero value.
Unmarshal(file) ==
    [GuardConfig EXCEPT
        !.Budgets = [MaxSessionTokens |->
                        IF file.max_session_tokens = {} THEN 0
                        ELSE CHOOSE n \in file.max_session_tokens : TRUE]]

\* applyDefaults on budgets.max_session_tokens
applyDefaultsBudgets(c) ==
    IF c.Budgets.MaxSessionTokens = 0
    THEN [c EXCEPT !.Budgets = [MaxSessionTokens |-> DefaultMaxSessionTokens]]
    ELSE c

\* LoadConfig of a file that can be read and parsed.
LoadConfig(file) == applyDefaultsBudgets(Unmarshal(file))

\* The budgets tried, the files holding them, and the totals of a session.
BudgetValues == {0, 1000, 80000, 100000}
BudgetFiles ==
    {[max_session_tokens |-> given] :
        given \in {{}} \cup {{n} : n \in BudgetValues}}
SessionTotals == {0, 999, 1000, 79999, 80000, 80001, 99999, 100000, 200000}

\* A configuration is built in the program (direct) or loaded from a file,
\* and checkTokenBudget is called with it for a session's total.
BudgetInit ==
    call \in {[fn |-> "checkTokenBudget",
               args |-> [how |-> how, file |-> file, totalTokens |-> totalTokens],
               returned |-> FALSE, result |-> NoViolation] :
                  how \in {"direct", "file"}, file \in BudgetFiles,
                  totalTokens \in SessionTotals}

CallCheckTokenBudget ==
    /\ call.fn = "checkTokenBudget" /\ ~call.returned
    /\ LET c == IF call.args.how = "file" THEN LoadConfig(call.args.file)
                ELSE Unmarshal(call.args.file)
       IN  call' = [call EXCEPT
                      !.returned = TRUE,
                      !.result = checkTokenBudget(c, call.args.totalTokens)]
    /\ UNCHANGED <<gatewayVars, rp, tk, rc, fed, sr, va>>

BudgetNext == CallCheckTokenBudget

(***************************************************************************)
(* The two similarity functions, called on the same pair of texts.         *)
(***************************************************************************)
BothSimilaritiesInit ==
    call \in {[fn |-> "similarity", args |-> [a |-> a, b |-> b],
               returned |-> FALSE, result |-> <<<<0, 1>>, <<0, 1>>>>] :
                  a \in Texts, b \in Texts}

\* The result holds tokenSimilarity(a, b) and jaccardSimilarity(a, b).
CallBothSimilarities ==
    /\ call.fn = "similarity" /\ ~call.returned
    /\ call' = [call EXCEPT
                  !.returned = TRUE,
                  !.result = <<tokenSimilarity(call.args.a, call.args.b),
                               jaccardSimilarity(call.args.a, call.args.b)>>]
    /\ UNCHANGED <<gatewayVars, rp, tk, rc, fed, sr, va>>

BothSimilaritiesNext == CallBothSimilarities

(***************************************************************************)
(* The packages driven directly: nothing of them is running.               *)
(***************************************************************************)
NoFeed == [prompts |-> <<>>, responses |-> <<>>, requests |-> 0, answered |-> 0]
ReplayIdle == rp = NoReplay
TrackerIdle == tk = NoTracker /\ rc = [g \in Callers |-> NoCaller]
CallIdle == call = NoCall
ManagerIdle == fed = NoFeed
StreamIdle == sr = NoStream
VerifyIdle == va = NoVerify
LibIdle ==
    /\ ReplayIdle /\ TrackerIdle /\ CallIdle /\ ManagerIdle
    /\ StreamIdle /\ VerifyIdle

(***************************************************************************)
(* Specifications.                                                         *)
(***************************************************************************)
vars == <<proxyVars, chainVars>>

\* The gateway serving requests, in each of the deployments.
Init == ProxyInit(Configs) /\ ChainInit /\ LibIdle
Next == ProxyNext
Spec == Init /\ [][Next]_vars

\* The gateway behind a gateway key, without guardrails: the steps of the
\* pipeline that such a deployment takes.
AuthInit == ProxyInit(AuthConfigs) /\ ChainInit /\ LibIdle
AuthNext ==
    \/ \E r \in Runs : Handler(r)
    \/ \E r \in Runs : Prevention(r)
    \/ \E r \in Runs : Forward(r)
    \/ \E r \in Runs : Transmit(r)
    \/ \E r \in Runs : writeAIRRecord(r)
    \/ \E r \in Runs : Retire(r)
    \/ \E r \in Runs : BgExit(r)
    \/ Tick
AuthSpec == AuthInit /\ [][AuthNext]_vars

\* The secrets an export is signed or verified with.
Secrets == {"test-signing-key-2025", "wrong-secret"}

\* The compliance reports handed to an export: none (nil), or a report.
ComplianceReports ==
    {<<>>,
     <<[GatewayVersion |-> "1.0.0", Frameworks |-> <<"SOC2">>]>>}

\* json.Marshal of the package: every field under its JSON name, with
\* chain_broken_at left out when it is 0 (omitempty).
MarshalPackage(pkg) ==
    [exported_at |-> pkg.ExportedAt,
     gateway_id |-> pkg.GatewayID,
     chain_length |-> pkg.ChainLength,
     chain_valid |-> pkg.ChainValid,
     chain_broken_at |->
        IF pkg.ChainBrokenAt = 0 THEN {} ELSE {pkg.ChainBrokenAt},
     audit_entries |->
        [i \in DOMAIN pkg.AuditEntries |-> Marshal(pkg.AuditEntries[i])],
     compliance_report |-> pkg.ComplianceReport,
     record_count |-> pkg.RecordCount,
     time_range |-> pkg.TimeRange,
     attestation |-> pkg.Attestation]

\* A signature over the audit entries of the package only.
signEntriesOnly(pkg, secret) ==
    <<"hmac-sha256", secret, pkg.AuditEntries>>

\* signPackage: HMAC-SHA256 of the serialized package under the secret.
signPackage(pkg, secret) ==
    <<"hmac-sha256", secret, MarshalPackage(pkg)>>

\* VerifyAttestation: the attestation is cleared, the package signed again
\* and the result compared with the saved attestation.
VerifyAttestation(pkg, secret) ==
    LET savedAttestation == pkg.Attestation
        expected == signPackage([pkg EXCEPT !.Attestation = <<>>], secret)
    IN  savedAttestation = expected

\* GenerateEvidencePackage, chain.Entries(): a copy of the entries, taken
\* under the chain's mutex.
ExportEntries ==
    /\ exp.pc = "idle"
    /\ MutexFree(mu)
    /\ \E secret \in Secrets, compliance \in ComplianceReports :
        exp' = [exp EXCEPT !.pc = "len", !.gatewayID = "gw-test",
                           !.secret = secret, !.compliance = compliance,
                           !.entries = ac.entries]
    /\ UNCHANGED <<ac, mu, app, tamper, proxyVars>>

\* GenerateEvidencePackage, chain.Len()
ExportLen ==
    /\ exp.pc = "len"
    /\ MutexFree(mu)
    /\ exp' = [exp EXCEPT !.pc = "verify", !.chainLen = ac.seq]
    /\ UNCHANGED <<ac, mu, app, tamper, proxyVars>>

\* GenerateEvidencePackage from chain.Verify() to the signed package.
ExportSign ==
    /\ exp.pc = "verify"
    /\ MutexFree(mu)
    /\ LET v == Verify(ac)
           entries == exp.entries
           tr == IF Len(entries) > 0
                 THEN [Earliest |-> entries[1].Timestamp,
                       Latest |-> entries[Len(entries)].Timestamp]
                 ELSE [Earliest |-> ZeroTime, Latest |-> ZeroTime]
           pkg == [ExportedAt |-> now,
                   GatewayID |-> exp.gatewayID,
                   ChainLength |-> exp.chainLen,
                   ChainValid |-> v.valid,
                   ChainBrokenAt |-> v.brokenAt,
                   AuditEntries |-> entries,
                   ComplianceReport |-> exp.compliance,
                   RecordCount |-> exp.chainLen,
                   TimeRange |-> tr,
                   Attestation |-> <<>>]
       IN  exp' = [exp EXCEPT
                   !.pc = "done",
                   !.pkg = [pkg EXCEPT
                            !.Attestation = signPackage(pkg, exp.secret)]]
    /\ UNCHANGED <<ac, mu, app, tamper, proxyVars>>

PackageFields ==
    {"ExportedAt", "GatewayID", "ChainLength", "ChainValid", "ChainBrokenAt",
     "AuditEntries", "ComplianceReport", "RecordCount", "TimeRange"}

\* The values a modification can put in a field of an exported package.
ChangeValues(pkg, field) ==
    IF field = "ExportedAt" THEN {pkg.ExportedAt + 1}
    ELSE IF field = "GatewayID" THEN {"tampered-id"}
    ELSE IF field = "ChainLength" THEN {0, pkg.ChainLength + 1}
    ELSE IF field = "ChainValid" THEN {~pkg.ChainValid}
    ELSE IF field = "ChainBrokenAt" THEN {0, 1}
    ELSE IF field = "AuditEntries"
    THEN {<<>>}
         \cup {[pkg.AuditEntries EXCEPT ![i][f] = pkg.AuditEntries[i][f] + 1] :
                  <<i, f>> \in (DOMAIN pkg.AuditEntries)
                               \X {"Sequence", "Timestamp"}}
         \cup {[pkg.AuditEntries EXCEPT ![i].RunID = "run-tampered"] :
                  i \in DOMAIN pkg.AuditEntries}
         \cup {[pkg.AuditEntries EXCEPT ![i][f] = <<"tampered-hash">>] :
                  <<i, f>> \in (DOMAIN pkg.AuditEntries)
                               \X {"RecordHash", "PrevHash", "Signature"}}
    ELSE IF field = "ComplianceReport" THEN ComplianceReports
    ELSE IF field = "RecordCount" THEN {0, pkg.RecordCount + 1}
    ELSE {[pkg.TimeRange EXCEPT !.Earliest = ZeroTime],
          [pkg.TimeRange EXCEPT !.Latest = pkg.TimeRange.Latest + 1]}

\* A field of the exported package other than the attestation is changed
\* after signing, as TestEvidencePackageTamperedAttestation does.
ChangePackage(field) ==
    /\ exp.pc = "done"
    /\ exp.changed = ""
    /\ \E value \in ChangeValues(exp.pkg, field) :
        /\ value # exp.pkg[field]
        /\ exp' = [exp EXCEPT !.pkg[field] = value, !.changed = field]
    /\ UNCHANGED <<ac, mu, app, tamper, proxyVars>>

\* The packages handed to VerifyAttestation: signed under one of the
\* secrets, and possibly changed afterwards.
SignedPackages ==
    LET pkg == [NoPackage EXCEPT !.ExportedAt = 1, !.GatewayID = "gw-test",
                                 !.ChainValid = TRUE]
    IN  {[[pkg EXCEPT !.Attestation = signPackage(pkg, secret)]
            EXCEPT !.GatewayID = id] :
            secret \in Secrets, id \in {"gw-test", "tampered-id"}}

VerifyInit ==
    \E pkg \in SignedPackages, secret \in Secrets :
        va = [NoVerify EXCEPT !.pkg = pkg, !.given = pkg, !.secret = secret]

\* savedAttestation := pkg.Attestation
VerifySave(i) ==
    /\ va.v[i].pc = "idle"
    /\ va' = [va EXCEPT !.v[i].pc = "clear",
                        !.v[i].saved = va.pkg.Attestation]
    /\ UNCHANGED <<gatewayVars, rp, tk, rc, call, fed, sr>>

\* pkg.Attestation = ""
VerifyClear(i) ==
    /\ va.v[i].pc = "clear"
    /\ va' = [va EXCEPT !.v[i].pc = "sign", !.pkg.Attestation = <<>>]
    /\ UNCHANGED <<gatewayVars, rp, tk, rc, call, fed, sr>>

\* expected := signPackage(pkg, secret)
VerifySign(i) ==
    /\ va.v[i].pc = "sign"
    /\ va' = [va EXCEPT !.v[i].pc = "restore",
                        !.v[i].expected = signPackage(va.pkg, va.secret)]
    /\ UNCHANGED <<gatewayVars, rp, tk, rc, call, fed, sr>>

\* pkg.Attestation = savedAttestation
VerifyRestore(i) ==
    /\ va.v[i].pc = "restore"
    /\ va' = [va EXCEPT !.v[i].pc = "return",
                        !.pkg.Attestation = va.v[i].saved]
    /\ UNCHANGED <<gatewayVars, rp, tk, rc, call, fed, sr>>

\* return savedAttestation == expected
VerifyReturn(i) ==
    /\ va.v[i].pc = "return"
    /\ va' = [va EXCEPT !.v[i].pc = "returned",
                        !.v[i].result = (va.v[i].saved = va.v[i].expected)]
    /\ UNCHANGED <<gatewayVars, rp, tk, rc, call, fed, sr>>

VerifyNext ==
    \E i \in Verifiers :
        \/ VerifySave(i)
        \/ VerifyClear(i)
        \/ VerifySign(i)
        \/ VerifyRestore(i)
        \/ VerifyReturn(i)

\* The gateway with a session store, serving requests side by side.  The
\* goroutines of backgroundRecord have nothing to do in this deployment
\* (no vault, no recorder) and are left where they start.
SessionInit == ProxyInit({SessionConfig}) /\ ChainInit /\ LibIdle
SessionNext ==
    \/ \E r \in Runs : Handler(r)
    \/ \E r \in Runs : Prevention(r)
    \/ \E r \in Runs : GetOrCreateStep(r)
    \/ \E r \in Runs : RecordRequestStep(r)
    \/ \E r \in Runs : EvaluateStep(r)
    \/ \E r \in Runs : ApprovalStep(r)
    \/ \E r \in Runs : Block(r)
    \/ \E r \in Runs : Forward(r)
    \/ \E r \in Runs : Transmit(r)
    \/ \E r \in Runs : RecordResponseStep(r)
    \/ \E r \in Runs : Retire(r)
    \/ cleanupLoop
    \/ Tick
SessionSpec == SessionInit /\ [][SessionNext]_vars

\* Goroutines appending to one audit chain.
ChainSpecInit == ProxyInit({PlainConfig}) /\ ChainInit /\ LibIdle
ChainSpec == ChainSpecInit /\ [][ChainNext]_vars

\* The same, with one stored entry modified at some point.
TamperNext ==
    \/ ChainNext
    \/ \E i \in Appenders, field \in ChainFields : Tamper(i, field)
TamperSpec == ChainSpecInit /\ [][TamperNext]_vars

\* An evidence package exported from the chain, then possibly modified.
ExportNext ==
    \/ ChainNext
    \/ ExportEntries
    \/ ExportLen
    \/ ExportSign
    \/ \E field \in PackageFields : ChangePackage(field)
ExportSpec == ChainSpecInit /\ [][ExportNext]_vars

(***************************************************************************)
(* Properties.                                                             *)
(***************************************************************************)
\* The handler of run r has written the status line of its response.
Responded(r) == w[r].status # 0

\* The gateway read the request of run r: it was neither turned away for
\* its key nor unreadable.
Admitted(r) ==
    /\ pc[r] \notin {"idle", "retired"}
    /\ ~(~loc[r].called /\ w[r].body \in {"unauthorized", "failed to read request"})

\* C1: every response the gateway returns on a proxy endpoint, whatever its
\* status, carries a non-empty x-run-id header.
C1_EveryResponseHasRunID ==
    \A r \in Runs : Responded(r) => w[r].xRunID # 0

\* No approval override was obtained: approval is disabled, has no webhook,
\* does not list the rule, or the webhook declined.
NoOverride(a, rule, answer) ==
    \/ ~a.Enabled
    \/ a.WebhookURL = ""
    \/ (a.Rules # {} /\ rule \notin a.Rules)
    \/ (answer.body = "declined" /\ answer.after <= ApprovalTimeout(a))

\* C2: whenever detection produces a violation for a request and no approval
\* override is obtained, the gateway answers 429 agent_guardrail_triggered,
\* makes no upstream call for the request and removes the session.
C2_ViolationEnforced ==
    \A r \in Runs :
        (/\ loc[r].v # NoViolation
         /\ pc[r] \notin {"approval", "block"}
         /\ NoOverride(cfg.Prevention.Approval, loc[r].v, loc[r].answer))
        => /\ w[r].status = 429
           /\ w[r].body = "agent_guardrail_triggered"
           /\ ~loc[r].called
           /\ extractSessionID(req[r]) \notin DOMAIN sessions

\* The prompts of the session's history that are the given prompt; the
\* prompt of the request being handled is among them.
IdenticalPrompts(history, prompt) ==
    Cardinality({i \in DOMAIN history : history[i].Text = prompt})

\* C3: with threshold 0.80, three similar prompts and a window of 60
\* seconds, identical prompts sent under one session are not rejected
\* before the fourth: a request rejected for prompt_loop is at least the
\* fourth identical prompt of its session.
C3_FourthPromptRejected ==
    \A r \in Runs :
        (/\ cfg.LoopDetection = [SimilarPromptThreshold |-> 80,
                                 MaxSimilarPrompts |-> 3,
                                 WindowSeconds |-> 60]
         /\ pc[r] = "block"
         /\ loc[r].v = "prompt_loop")
        => IdenticalPrompts(sessions[extractSessionID(req[r])].PromptHistory,
                            loc[r].prompt) >= 4

\* The text matches a PII pattern that the configuration enables.
MatchesEnabledPattern(pii, text) ==
    \/ pii.BlockSSN /\ MatchString(ssnRegex, text)
    \/ pii.BlockCC /\ MatchString(ccRegex, text)
    \/ pii.BlockEmail /\ MatchString(emailRegex, text)
    \/ pii.BlockPhone /\ MatchString(phoneRegex, text)

\* The texts of a message: its string, or those of its text parts.
MessageTexts(content) ==
    IF content.kind = "string" THEN {content.text}
    ELSE {content.parts[i].Text :
            i \in {j \in DOMAIN content.parts : content.parts[j].Type = "text"}}

\* Run r carries PII that the deployment is configured to block.
BlockedPII(r) ==
    /\ cfg.Guardrails
    /\ cfg.Prevention.PII.Enabled
    /\ cfg.Prevention.PII.RedactMode = "block"
    /\ \E text \in MessageTexts(req[r].content) :
        MatchesEnabledPattern(cfg.Prevention.PII, text)

\* C4: with PII prevention in block mode, a request whose last user message
\* matches an enabled pattern is answered 403 prevention_policy_blocked and
\* is never forwarded upstream.
C4_PIIBlocked ==
    \A r \in Runs :
        (Admitted(r) /\ pc[r] # "prevention" /\ BlockedPII(r))
        => /\ pc[r] = "done"
           /\ w[r].status = 403
           /\ w[r].body = "prevention_policy_blocked"
           /\ ~loc[r].called

\* Run r was turned away for its key: 401 and no upstream call.
Unauthorized(r) ==
    /\ pc[r] = "done"
    /\ w[r].status = 401
    /\ ~loc[r].called

\* C5, as stated: with a gateway key configured, a request is processed if
\* and only if its X-Gateway-Key or its X-Api-Key equals the key; every
\* other request gets 401 and causes no upstream call.
C5_EitherHeaderAccepted ==
    \A r \in Runs :
        (cfg.GatewayKey # "" /\ pc[r] \notin {"idle", "retired"})
        => IF req[r].XGatewayKey = cfg.GatewayKey
              \/ req[r].XApiKey = cfg.GatewayKey
           THEN w[r].status # 401
           ELSE Unauthorized(r)

\* The key a request provides: X-Gateway-Key, and X-Api-Key only when
\* X-Gateway-Key is absent.
ProvidedKey(q) == IF q.XGatewayKey # "" THEN q.XGatewayKey ELSE q.XApiKey

\* C5, amended: with a gateway key configured, a request is processed if and
\* only if the key it provides equals the configured key, the key provided
\* being X-Gateway-Key when that header is present and X-Api-Key otherwise;
\* every other request gets 401 and causes no upstream call.
C5_ProvidedKeyAccepted ==
    \A r \in Runs :
        (cfg.GatewayKey # "" /\ pc[r] \notin {"idle", "retired"})
        => IF ProvidedKey(req[r]) = cfg.GatewayKey
           THEN w[r].status # 401
           ELSE Unauthorized(r)

C5_Witness ==
    \E r \in Runs :
        /\ cfg.GatewayKey # ""
        /\ req[r].XGatewayKey = ""
        /\ req[r].XApiKey = cfg.GatewayKey
        /\ loc[r].called

\* A step of a goroutine of run r that is already running: backgroundRecord
\* calling the vault or the recorder, or ending; the alert being posted.
AncillaryStep(r) ==
    \/ bg[r].pc # "none" /\ bg'[r] # bg[r]
    \/ alert[r] = "posting" /\ alert'[r] # alert[r]

\* A goroutine of run r starts in this step.
AncillaryStart(r) ==
    \/ bg[r].pc = "none" /\ bg'[r].pc # "none"
    \/ alert[r] = "none" /\ alert'[r] = "posting"

\* C6: failure isolation.  The vault, the AIR record write and the alert
\* are started only once the response is written, and whether they succeed,
\* fail or never finish, no step of theirs changes any response, any
\* handler's progress or the session store.
C6_FailureIsolation ==
    [][\A r \in Runs :
        /\ AncillaryStart(r) => w'[r].status # 0
        /\ AncillaryStep(r) =>
            /\ w' = w
            /\ pc' = pc
            /\ loc' = loc
            /\ sessions' = sessions]_vars

C6_Witness ==
    \E r \in Runs :
        /\ cfg.Vault
        /\ pc[r] = "done"
        /\ w[r].status = 200
        /\ w[r].body = "upstream"
        /\ bg[r].pc = "done"
        /\ bg[r].reqRef = NoRef
        /\ bg[r].wrote = "failed"

\* C7: for every request that completes after the upstream call was
\* attempted, with a recorder, exactly one AIR record of its run id is
\* written: when the handler has answered, exactly one backgroundRecord,
\* the only writer of the record, has been started for the run.
C7_OneRecordPerRequest ==
    \A r \in Runs :
        (cfg.Recorder /\ pc[r] = "done" /\ loc[r].called)
        => loc[r].scheduled = 1

\* C8: in every written AIR record, status is "success" if and only if the
\* upstream status was below 400 and no transport failure occurred, a
\* failure while reading or streaming the body included; otherwise "error".
C8_StatusReflectsUpstream ==
    \A r \in Runs :
        bg[r].wrote = "ok"
        => LET rec == airFiles[bg[r].runID]
               fine == /\ ~bg[r].up.err
                       /\ bg[r].up.StatusCode < 400
                       /\ bg[r].up.readOK
           IN  rec.Status = IF fine THEN "success" ELSE "error"

\* C9: in every written AIR record, the error field is non-empty if and
\* only if status is "error".
C9_ErrorIffStatusError ==
    \A id \in DOMAIN airFiles :
        (airFiles[id].Error # "") <=> (airFiles[id].Status = "error")

\* Every appending goroutine has returned from Append.
AllAppended == \A a \in Appenders : app[a].pc = "done"

\* C10: under any interleaving of the concurrent Append calls, the chain
\* ends with one entry per call, numbered 1..N in stored order, the first
\* with an empty prev_hash, every later one with the hash of the
\* serialization of its predecessor; Len() is N and Verify() is valid.
C10_ConcurrentAppend ==
    AllAppended =>
        /\ Len(ac.entries) = MaxAppenders
        /\ \A i \in DOMAIN ac.entries :
            /\ ac.entries[i].Sequence = i
            /\ ac.entries[i].PrevHash =
                IF i = 1 THEN NoHash
                ELSE sha256Hex(Marshal(ac.entries[i - 1]))
        /\ ChainLen(ac) = MaxAppenders
        /\ Verify(ac).valid

C10_Witness ==
    /\ AllAppended
    /\ Len(ac.entries) = MaxAppenders
    /\ ac.entries[1].RunID # ac.entries[2].RunID

\* The stored entries that Verify has to reject: the signature does not
\* recompute under the chain key, or prev_hash is not the hash of the
\* serialized predecessor (empty for the first entry).
Offending(chain) ==
    {i \in DOMAIN chain.entries :
        \/ chain.entries[i].Signature # sign(chain.secret, chain.entries[i])
        \/ chain.entries[i].PrevHash #
            IF i = 1 THEN NoHash
            ELSE sha256Hex(Marshal(chain.entries[i - 1]))}

First(indices) == CHOOSE i \in indices : \A j \in indices : i <= j

\* C11: Verify() returns (true, 0) if and only if every signature
\* recomputes and every prev_hash matches; otherwise it returns false with
\* the sequence number of the first offending entry, so that changing only
\* entry k's record_hash yields (false, k).
C11_VerifyFirstOffender ==
    mu = 0 =>
        /\ Verify(ac) =
            IF Offending(ac) = {} THEN [valid |-> TRUE, brokenAt |-> 0]
            ELSE [valid |-> FALSE,
                  brokenAt |-> ac.entries[First(Offending(ac))].Sequence]
        /\ tamper.field = "RecordHash" =>
            Verify(ac) = [valid |-> FALSE, brokenAt |-> tamper.index]

C11_Witness ==
    /\ mu = 0
    /\ Len(ac.entries) = 3
    /\ tamper = [index |-> 2, field |-> "RecordHash"]
    /\ Verify(ac) = [valid |-> FALSE, brokenAt |-> 2]

\* C12: if any stored field of any entry is modified after it was appended,
\* at any position including the last, Verify() reports the chain broken.
C12_TamperEvident ==
    (mu = 0 /\ tamper # NoTamper) => ~Verify(ac).valid

\* C13: an evidence package generated with key K verifies under K; after
\* any change to a field other than the attestation it does not; and it
\* verifies under no key different from K.
C13_AttestationSound ==
    exp.pc = "done" =>
        /\ VerifyAttestation(exp.pkg, exp.secret) <=> exp.changed = ""
        /\ \A secret \in Secrets \ {exp.secret} :
            ~VerifyAttestation(exp.pkg, secret)

C13_Witness ==
    /\ exp.pc = "done"
    /\ exp.changed = "GatewayID"
    /\ Len(exp.pkg.AuditEntries) > 0
    /\ ~VerifyAttestation(exp.pkg, exp.secret)

\* C14: the background task of a proxied request ends with the append of
\* one entry for its run_id to the audit chain (after the vault stores and
\* the AIR record write), so a finished background task has its entry in
\* the chain.
C14_ChainEntryPerRun ==
    \A r \in Runs :
        bg[r].pc = "done"
        => \E i \in DOMAIN ac.entries : ac.entries[i].RunID = bg[r].runID

\* The last time a session was created or used.
LastActivity(s) == IF s.LastActive = ZeroTime THEN s.CreatedAt ELSE s.LastActive

\* C15: a run of the session sweeper removes exactly the sessions whose
\* last activity is older than now minus the TTL and leaves every other
\* session unchanged; a session just created or just used is not removed.
C15_SweepRemovesExactlyIdle ==
    [][cleanupLoop =>
        /\ DOMAIN sessions' =
            {id \in DOMAIN sessions :
                Seconds(now - LastActivity(sessions[id])) <= SessionTTL}
        /\ \A id \in DOMAIN sessions' : sessions'[id] = sessions[id]]_vars

\* The approval webhook was consulted for the violation of run r.
Consulted(r) == loc[r].v # NoViolation /\ loc[r].answer # NotAsked

\* C16: when the approval webhook is consulted, the decision is
\* fallback_allow if the webhook times out, is unreachable or sends an
\* undecodable answer, and the approved field of the answer if it answers
\* in time, whatever fallback_allow is; the wait never exceeds
\* timeout_seconds.
C16_ApprovalDecision ==
    \A r \in Runs :
        Consulted(r) =>
            LET a == cfg.Prevention.Approval
                answer == loc[r].answer
                failed == \/ answer.body \in {"unreachable", "undecodable"}
                          \/ answer.after > a.TimeoutSeconds
            IN  /\ failed => loc[r].approved = a.FallbackAllow
                /\ ~failed => loc[r].approved = (answer.body = "approved")
                /\ loc[r].waited <= a.TimeoutSeconds

C16_Witness ==
    \E r \in Runs :
        /\ Consulted(r)
        /\ cfg.Prevention.Approval.FallbackAllow
        /\ loc[r].answer = [body |-> "declined", after |-> 5]
        /\ loc[r].approved
        /\ loc[r].waited = 1

\* C17: the approval webhook is contacted only for a violation whose rule
\* is listed in approval.rules, and only when an approval webhook is
\* configured; a violation whose rule is not listed, the empty list
\* included, is not sent to the webhook and is not overridden.
C17_OnlyListedRulesAsked ==
    \A r \in Runs :
        LET a == cfg.Prevention.Approval
        IN  /\ Consulted(r) =>
                /\ a.Enabled /\ a.WebhookURL # ""
                /\ loc[r].v \in a.Rules
            /\ (/\ loc[r].v # NoViolation
                /\ a.Enabled /\ a.WebhookURL # ""
                /\ loc[r].v \notin a.Rules
                /\ pc[r] \notin {"approval", "block"})
               => ~loc[r].called

\* Run r got past the prevention layer with its body, rewritten or not.
PastPrevention(r) ==
    /\ Admitted(r)
    /\ cfg.Guardrails
    /\ pc[r] \notin {"idle", "prevention"}
    /\ w[r].status # 403

\* The tool policy keeps the entry: it is on the allowlist if there is one,
\* else it is not on the blocklist.
PolicyKeeps(tf, tool) ==
    IF ~tf.Enabled THEN TRUE
    ELSE IF tf.Allowlist # {} THEN tool.Name \in tf.Allowlist
    ELSE tool.Name \notin tf.Blocklist

RECURSIVE KeptTools(_, _)
KeptTools(tf, tools) ==
    IF tools = <<>> THEN <<>>
    ELSE IF PolicyKeeps(tf, Head(tools))
    THEN <<Head(tools)>> \o KeptTools(tf, Tail(tools))
    ELSE KeptTools(tf, Tail(tools))

\* C18: a body rewritten by prevention differs from the original only where
\* a policy acted: the other top-level fields are preserved, a message
\* that was not redacted is preserved, and so is every tools entry that
\* the tool filter did not remove.
C18_RewritePreserves ==
    \A r \in Runs :
        PastPrevention(r) =>
            LET original == Body(req[r])
                forwarded == loc[r].body
            IN  /\ forwarded.stream = original.stream
                /\ forwarded.hasTools = original.hasTools
                /\ forwarded.model = original.model
                /\ (\A text \in MessageTexts(original.content) :
                        ~MatchesEnabledPattern(cfg.Prevention.PII, text))
                   => forwarded.content = original.content
                /\ \A i \in DOMAIN original.tools :
                        PolicyKeeps(cfg.Prevention.Tools, original.tools[i])
                        => \E j \in DOMAIN forwarded.tools :
                                forwarded.tools[j] = original.tools[i]

\* C19: with PII prevention in redact mode, the last user message of a
\* request that is forwarded upstream matches no enabled PII pattern,
\* whether its content is a string or a list of parts.
C19_ForwardedRedacted ==
    \A r \in Runs :
        (/\ PastPrevention(r)
         /\ cfg.Prevention.PII.Enabled
         /\ cfg.Prevention.PII.RedactMode = "redact"
         /\ loc[r].called)
        => \A text \in MessageTexts(loc[r].body.content) :
                ~MatchesEnabledPattern(cfg.Prevention.PII, text)

\* C20: with the tool filter enabled, the tools forwarded upstream are
\* exactly the requested tools on the allowlist when there is one,
\* otherwise exactly the requested tools not on the blocklist; a request
\* that named tools all of which are removed is answered 403 and not
\* forwarded.
C20_ToolsFiltered ==
    \A r \in Runs :
        (/\ Admitted(r)
         /\ cfg.Guardrails
         /\ cfg.Prevention.Tools.Enabled
         /\ pc[r] \notin {"idle", "prevention"})
        => LET kept == KeptTools(cfg.Prevention.Tools, req[r].tools)
           IN  /\ loc[r].called => loc[r].body.tools = kept
               /\ (req[r].tools # <<>> /\ kept = <<>>)
                  => (w[r].status = 403 /\ ~loc[r].called)


(***************************************************************************)
(* The replay engine on its own.                                           *)
(***************************************************************************)
ReplaySpecInit ==
    /\ ProxyInit({PlainConfig}) /\ ChainInit
    /\ ReplayInit /\ TrackerIdle /\ CallIdle /\ ManagerIdle
    /\ StreamIdle /\ VerifyIdle
ReplaySpec == ReplaySpecInit /\ [][ReplayNext]_vars

\* The vault fails to return the blob a reference of the record names.
FetchFails(ref) ==
    ref # NoRef /\ rp.blobs[extractKey(ref)] = Unavailable

\* The blob a reference names is not the one the record's checksum is of.
Mismatch(ref, sum) ==
    /\ ref # NoRef /\ sum # NoHash
    /\ rp.blobs[extractKey(ref)] # Unavailable
    /\ Checksum(rp.blobs[extractKey(ref)]) # sum

RouterSpecInit ==
    /\ ProxyInit({PlainConfig}) /\ ChainInit
    /\ ReplayIdle /\ TrackerIdle /\ RouterInit /\ ManagerIdle
    /\ StreamIdle /\ VerifyIdle
RouterSpec == RouterSpecInit /\ [][RouterNext]_vars

\* The condition a rule measures is strictly above the rule's threshold.
Exceeds(rule, tracker, model) ==
    /\ model \in DOMAIN tracker.models
    /\ \/ /\ rule.Condition = "error_rate"
          /\ tracker.models[model].ErrorCount * Tenths
                > rule.Threshold * tracker.models[model].RequestCount
       \/ /\ rule.Condition = "latency_p95"
          /\ P95MS(tracker.models[model]) * Tenths > rule.Threshold

\* The rules that are enabled, are for the model, and whose condition is
\* exceeded.
Eligible(router, tracker, model) ==
    {i \in DOMAIN router.Rules :
        /\ router.Rules[i].Enabled
        /\ router.Rules[i].FromModel = model
        /\ Exceeds(router.Rules[i], tracker, model)}

\* C22: EvaluateRouting returns the decision of the first enabled rule, in
\* configured order, whose from_model is the requested model and whose
\* error rate or p95 latency is strictly above its threshold; with a
\* disabled router, a nil tracker, no data for the model or no such rule
\* it returns the original model.
C22_FirstMatchingRule ==
    (call.fn = "EvaluateRouting" /\ call.returned) =>
        LET router == call.args.router
            tracker == call.args.tracker
            model == call.args.model
            eligible == Eligible(router, tracker, model)
            unrouted == \/ ~router.Enabled
                        \/ tracker.isNil
                        \/ model \notin DOMAIN tracker.models
                        \/ eligible = {}
        IN  /\ call.result.OriginalModel = model
            /\ unrouted =>
                /\ call.result.RoutedModel = model
                /\ call.result.Rule = ""
            /\ ~unrouted =>
                LET first == CHOOSE i \in eligible : \A j \in eligible : i <= j
                IN  /\ call.result.RoutedModel = router.Rules[first].ToModel
                    /\ call.result.Rule = router.Rules[first].Condition

\* Two rules were eligible, for different models, and the first was taken.
C22_Witness ==
    /\ call.fn = "EvaluateRouting" /\ call.returned
    /\ Eligible(call.args.router, call.args.tracker, call.args.model) = {1, 2}
    /\ call.args.router.Enabled /\ ~call.args.tracker.isNil
    /\ call.args.router.Rules[1].ToModel # call.args.router.Rules[2].ToModel
    /\ call.result.RoutedModel = call.args.router.Rules[1].ToModel

(***************************************************************************)
(* jaccardSimilarity on its own.                                           *)
(***************************************************************************)
SimilaritySpecInit ==
    /\ ProxyInit({PlainConfig}) /\ ChainInit
    /\ ReplayIdle /\ TrackerIdle /\ SimilarityInit /\ ManagerIdle
    /\ StreamIdle /\ VerifyIdle
SimilaritySpec == SimilaritySpecInit /\ [][SimilarityNext]_vars

\* Two fractions are the same number.
SameScore(x, y) == x[1] * y[2] = y[1] * x[2]

\* C23: similarity(a, a) = 1.0, similarity(a, b) = similarity(b, a),
\* similarity("", "") = 1.0, and similarity(a, "") = 0 for every non-empty
\* a, a string of white space included.
C23_JaccardLaws ==
    (call.fn = "jaccardSimilarity" /\ call.returned) =>
        LET a == call.args.a
            b == call.args.b
        IN  /\ a = b => SameScore(call.result, <<1, 1>>)
            /\ SameScore(call.result, jaccardSimilarity(b, a))
            /\ (a = <<>> /\ b = <<>>) => SameScore(call.result, <<1, 1>>)
            /\ (a # <<>> /\ b = <<>>) => SameScore(call.result, <<0, 1>>)

(***************************************************************************)
(* ClassifyFailure on its own.                                             *)
(***************************************************************************)
ClassifySpecInit ==
    /\ ProxyInit({PlainConfig}) /\ ChainInit
    /\ ReplayIdle /\ TrackerIdle /\ ClassifyInit /\ ManagerIdle
    /\ StreamIdle /\ VerifyIdle
ClassifySpec == ClassifySpecInit /\ [][ClassifyNext]_vars

\* The body, whatever its case, carries one of the texts.
Mentions(errorBody, texts) ==
    \E i \in DOMAIN errorBody, sub \in texts :
        ToLower(errorBody[i]) \in Containing(sub)

\* The table of the taxonomy, in its order of precedence: a condition on
\* the status code and the body, and the category it selects.
Taxonomy(statusCode, errorBody) ==
    <<<<statusCode = 429, "rate_limit">>,
      <<statusCode \in {401, 403}, "auth_error">>,
      <<statusCode \in {500, 502, 503}, "server_error">>,
      <<statusCode = 504 \/ Mentions(errorBody, TimeoutTexts), "timeout">>,
      <<statusCode = 400 /\ Mentions(errorBody, ContextLengthTexts), "context_length">>,
      <<statusCode = 400 /\ Mentions(errorBody, ContentFilterTexts), "content_filter">>,
      <<statusCode = 400, "invalid_request">>,
      <<statusCode \in 400..499, "invalid_request">>,
      <<TRUE, "unknown">>>>

\* C24: every status code and error body maps to exactly one category, the
\* one of the first row of the taxonomy that applies: 429; 401 or 403; 500,
\* 502 or 503; 504 or a timeout text; 400 with a context-length text, then
\* with a content-filter text, then any 400; another 4xx; otherwise
\* unknown.
C24_ClassifyPrecedence ==
    (call.fn = "ClassifyFailure" /\ call.returned) =>
        LET table == Taxonomy(call.args.statusCode, call.args.errorBody)
            rows == {i \in DOMAIN table : table[i][1]}
            first == CHOOSE i \in rows : \A j \in rows : i <= j
        IN  call.result = table[first][2]

\* A 400 whose body has both a context-length and a content-filter text
\* was classified.
C24_Witness ==
    /\ call.fn = "ClassifyFailure" /\ call.returned
    /\ call.args.statusCode = 400
    /\ Mentions(call.args.errorBody, ContextLengthTexts)
    /\ Mentions(call.args.errorBody, ContentFilterTexts)
    /\ call.result = "context_length"

(***************************************************************************)
(* EvaluateCompliance on its own.                                          *)
(***************************************************************************)
ComplianceSpecInit ==
    /\ ProxyInit({PlainConfig}) /\ ChainInit
    /\ ReplayIdle /\ TrackerIdle /\ ComplianceInit /\ ManagerIdle
    /\ StreamIdle /\ VerifyIdle
ComplianceSpec == ComplianceSpecInit /\ [][ComplianceNext]_vars

\* How often a framework was asked for, and the controls reported for it.
Asked(frameworks, fw) == Cardinality({i \in DOMAIN frameworks : frameworks[i] = fw})
Reported(controls, fw) == {i \in DOMAIN controls : controls[i].Framework = fw}
WithStatus(controls, status) == {i \in DOMAIN controls : controls[i].Status = status}

\* C25: 12 controls for each SOC2 asked for and 10 for each ISO 27001, and
\* no others; passing + failing + partial = total; the statuses depend on
\* the chain only through chain_len > 0; the chain-backed controls pass
\* when chain_len > 0 and are partial otherwise.
C25_ComplianceReport ==
    (call.fn = "EvaluateCompliance" /\ call.returned) =>
        LET a == call.args
            controls == call.result.Controls
            summary == call.result.Summary
            flagged == EvaluateCompliance(a.frameworks,
                                          IF a.chainLen > 0 THEN 1 ELSE 0,
                                          a.hasVault, a.hasGuardrails,
                                          a.hasAnalytics)
        IN  /\ Cardinality(Reported(controls, "SOC2"))
                    = 12 * Asked(a.frameworks, "SOC2")
            /\ Cardinality(Reported(controls, "ISO27001"))
                    = 10 * Asked(a.frameworks, "ISO27001")
            /\ Len(controls) = 12 * Asked(a.frameworks, "SOC2")
                                + 10 * Asked(a.frameworks, "ISO27001")
            /\ summary.TotalControls = Len(controls)
            /\ summary.Passing = Cardinality(WithStatus(controls, "pass"))
            /\ summary.Failing = Cardinality(WithStatus(controls, "fail"))
            /\ summary.Partial = Cardinality(WithStatus(controls, "partial"))
            /\ summary.Passing + summary.Failing + summary.Partial
                    = summary.TotalControls
            /\ controls = flagged.Controls
            /\ \A i \in DOMAIN controls :
                controls[i].GatewayFeature = "Trust Layer" =>
                    controls[i].Status
                        = IF a.chainLen > 0 THEN "pass" ELSE "partial"

\* Both frameworks were evaluated on an empty chain without a vault: some
\* controls pass, some fail and some are partial.
C25_Witness ==
    /\ call.fn = "EvaluateCompliance" /\ call.returned
    /\ call.args.frameworks = <<"SOC2", "ISO27001">>
    /\ call.args.chainLen = 0
    /\ call.result.Summary.Partial = 3
    /\ call.result.Summary.Failing > 0
    /\ call.result.Summary.Passing > 0

(***************************************************************************)
(* Evaluate on its own.                                                    *)
(***************************************************************************)
EvaluateSpecInit ==
    /\ ProxyInit({DetectConfig}) /\ ChainInit
    /\ ReplayIdle /\ TrackerIdle /\ EvaluateInit /\ ManagerIdle
    /\ StreamIdle /\ VerifyIdle
EvaluateSpec == EvaluateSpecInit /\ [][EvaluateNext]_vars

\* What each rule, taken alone, makes of the session and the request, in
\* the order token_budget, prompt_loop, tool_retry_storm, error_spiral.
RuleVerdicts(c, s, promptText, toolNames, clock) ==
    <<checkTokenBudget(c, s.TotalTokens),
      checkPromptLoop(c, s.PromptHistory, promptText, clock),
      checkToolRetryStorm(c, s.ToolCalls, toolNames, clock),
      checkErrorSpiral(c, s.ConsecutiveErrors)>>

\* C26: Evaluate reports the first rule that triggers in the order
\* token_budget, prompt_loop, tool_retry_storm, error_spiral, and for an
\* existing session it reports no violation exactly when no rule triggers.
C26_FirstRuleReported ==
    (call.fn = "Evaluate" /\ call.returned
        /\ call.args.sessionID \in DOMAIN call.args.store) =>
        LET verdicts == RuleVerdicts(cfg, call.args.store[call.args.sessionID],
                                     call.args.promptText, call.args.toolNames,
                                     now)
            order == <<"token_budget", "prompt_loop", "tool_retry_storm",
                       "error_spiral">>
            triggered == {i \in 1..4 : verdicts[i] # NoViolation}
        IN  /\ \A i \in triggered : verdicts[i] = order[i]
            /\ (call.result = NoViolation) <=> (triggered = {})
            /\ triggered # {} =>
                call.result
                    = order[CHOOSE i \in triggered : \A j \in triggered : i <= j]

\* Several rules would trigger, among them the prompt loop and the tool
\* retry storm, and the prompt loop was reported.
C26_Witness ==
    /\ call.fn = "Evaluate" /\ call.returned
    /\ call.args.sessionID \in DOMAIN call.args.store
    /\ LET verdicts == RuleVerdicts(cfg, call.args.store[call.args.sessionID],
                                    call.args.promptText, call.args.toolNames,
                                    now)
       IN  /\ verdicts[1] = NoViolation
           /\ verdicts[2] # NoViolation
           /\ verdicts[3] # NoViolation
    /\ call.result = "prompt_loop"

(***************************************************************************)
(* The session Manager on its own.                                         *)
(***************************************************************************)
ManagerSpecInit ==
    /\ ProxyInit({DetectConfig}) /\ ChainInit
    /\ ReplayIdle /\ TrackerIdle /\ CallIdle /\ ManagerInit
    /\ StreamIdle /\ VerifyIdle
HistorySpec == ManagerSpecInit /\ [][HistoryNext]_vars
ResponseSpec == ManagerSpecInit /\ [][ResponseNext]_vars

\* The last n elements of a sequence, and the texts of a prompt history.
Latest(seq, n) ==
    [i \in 1..(IF Len(seq) < n THEN Len(seq) ELSE n) |->
        seq[i + (IF Len(seq) < n THEN 0 ELSE Len(seq) - n)]]
HistoryTexts(s) == [i \in DOMAIN s.PromptHistory |-> s.PromptHistory[i].Text]

\* C27: after any sequence of RecordRequest calls on a session its prompt
\* history has at most 20 entries, and they are the most recent prompts
\* recorded, in the order in which they were recorded.
C27_HistoryIsLatest20 ==
    DriverSession \in DOMAIN sessions =>
        /\ Len(sessions[DriverSession].PromptHistory) <= 20
        /\ HistoryTexts(sessions[DriverSession]) = Latest(fed.prompts, 20)

\* More than 20 prompts were recorded on the session.
C27_Witness ==
    /\ DriverSession \in DOMAIN sessions
    /\ Len(fed.prompts) > 20
    /\ Len(sessions[DriverSession].PromptHistory) = 20

\* The errors at the end of a sequence of responses, and its tokens.
RECURSIVE TrailingErrors(_)
TrailingErrors(responses) ==
    IF responses = <<>> THEN 0
    ELSE IF ~responses[Len(responses)].isError THEN 0
    ELSE 1 + TrailingErrors(SubSeq(responses, 1, Len(responses) - 1))
RECURSIVE TokenSum(_)
TokenSum(responses) ==
    IF responses = <<>> THEN 0
    ELSE responses[1].tokens + TokenSum(Tail(responses))

\* C28: after any sequence of RecordResponse calls on an existing session,
\* consecutive_errors is the number of error responses since the latest
\* response that was not an error, or since the session was created, and
\* total_tokens is the sum of the token counts recorded.
C28_ErrorsAndTokens ==
    DriverSession \in DOMAIN sessions =>
        /\ sessions[DriverSession].ConsecutiveErrors = TrailingErrors(fed.responses)
        /\ sessions[DriverSession].TotalTokens = TokenSum(fed.responses)

\* Errors were recorded, then a success, then errors again.
C28_Witness ==
    /\ DriverSession \in DOMAIN sessions
    /\ Len(fed.responses) = 4
    /\ fed.responses[1].isError /\ ~fed.responses[2].isError
    /\ fed.responses[3].isError /\ fed.responses[4].isError
    /\ sessions[DriverSession].ConsecutiveErrors = 2
    /\ sessions[DriverSession].TotalTokens > 0

(***************************************************************************)
(* The performance tracker on its own.                                     *)
(***************************************************************************)
TrackerSpecInit ==
    /\ ProxyInit({PlainConfig}) /\ ChainInit
    /\ ReplayIdle /\ TrackerInit /\ CallIdle /\ ManagerIdle
    /\ StreamIdle /\ VerifyIdle
TrackerSpec == TrackerSpecInit /\ [][TrackerNext]_vars

\* The callers whose RecordCall for a model has taken effect, in order, and
\* the durations of the latest n of them.
ServedFor(model) ==
    SelectSeq(tk.served, LAMBDA g : rc[g].args.model = model)
LatestDurations(model, n) ==
    LET served == ServedFor(model)
    IN  {rc[served[i]].args.durationMS :
            i \in {j \in DOMAIN served : j > Len(served) - n}}

\* C29: for every model the stored latency samples never exceed the cap
\* (10,000 in the code), and once the buffer is full each RecordCall
\* overwrites the oldest sample, so that the buffer holds exactly the most
\* recent durations.
C29_RingHoldsMostRecent ==
    \A model \in DOMAIN tk.models :
        LET latencies == tk.models[model].Latencies
        IN  /\ Len(latencies) <= LatencyCap
            /\ {latencies[i] : i \in DOMAIN latencies}
                    = LatestDurations(model, LatencyCap)

\* The callers whose RecordCall for a model has returned.
Returned(model) ==
    {g \in Callers : rc[g].pc = "done" /\ rc[g].args.model = model}
RECURSIVE SumOver(_, _)
SumOver(callers, field) ==
    IF callers = {} THEN 0
    ELSE LET g == CHOOSE x \in callers : TRUE
         IN  rc[g].args[field] + SumOver(callers \ {g}, field)

\* C30: whatever the interleaving of concurrent RecordCall invocations, a
\* model's request_count is the number of invocations made for it and is
\* success_count + error_count, and its token totals are the sums of the
\* tokens passed: no update is lost.
C30_NoLostUpdate ==
    \A model \in {"gpt-4", "gpt-4o"} :
        LET returned == Returned(model)
            ms == LookupStats(tk.models, model)
        IN  /\ ms.RequestCount = Cardinality(returned)
            /\ ms.RequestCount = ms.SuccessCount + ms.ErrorCount
            /\ ms.ErrorCount
                = Cardinality({g \in returned : rc[g].args.status # "success"})
            /\ ms.TotalTokens = SumOver(returned, "totalTokens")
            /\ ms.TokensPrompt = SumOver(returned, "promptTokens")
            /\ ms.TokensCompletion = SumOver(returned, "completionTokens")

\* Every caller has returned, all of them for the same model, one with an
\* error.
C30_Witness ==
    /\ \A g \in Callers : rc[g].pc = "done" /\ rc[g].args.model = "gpt-4"
    /\ \E g \in Callers : rc[g].args.status = "error"
    /\ tk.models["gpt-4"].RequestCount = MaxCallers

(***************************************************************************)
(* A streamed response that is cut short.                                  *)
(***************************************************************************)
\* handleStreamingResponse from the top of its loop, under every body and
\* every way the reads can end.
StreamSpecInit ==
    /\ ProxyInit({PlainConfig}) /\ ChainInit
    /\ ReplayIdle /\ TrackerIdle /\ CallIdle /\ ManagerIdle
    /\ StreamInit /\ VerifyIdle
StreamSpec == StreamSpecInit /\ [][StreamNext]_vars

\* The handler's goroutine keeps running: a read that can return returns,
\* and the statements after the loop are executed.
StreamLiveSpec ==
    StreamSpecInit /\ [][StreamNext]_vars
        /\ WF_vars(StreamRead) /\ WF_vars(StreamRecord)

\* The first n elements of whole are part.
IsPrefix(part, whole) ==
    Len(part) <= Len(whole) /\ part = SubSeq(whole, 1, Len(part))

\* Where the handler stands agrees with what it has done: in the loop no
\* read has failed and nothing is scheduled; once it has returned, one
\* background record is scheduled, with the bytes read so far in order.
StreamRecorded ==
    /\ sr.pc = "loop" => sr.err = "" /\ sr.scheduled = 0
    /\ sr.pc = "record" => sr.err # "" /\ sr.scheduled = 0
    /\ sr.pc = "returned" =>
        /\ sr.scheduled = 1
        /\ sr.respBody = sr.read
        /\ sr.hasResp = (sr.read # <<>>)
        /\ IsPrefix(sr.read, sr.body)

\* C31: a streamed response whose client goes away or whose upstream read
\* fails leaves the copy loop at the failed read, and the handler then
\* schedules exactly one background record holding exactly the bytes read
\* from the upstream until then, in order.
C31_PartialStreamRecorded == []StreamRecorded /\ <>(sr.pc = "returned")

\* The client went away, a read of the upstream failed after part of the
\* body had come, and the handler has returned.
C31_Witness ==
    /\ sr.pc = "returned"
    /\ ~sr.connected
    /\ sr.err = "error"
    /\ sr.read # <<>>
    /\ Len(sr.read) < Len(sr.body)

(***************************************************************************)
(* An export while the chain grows.                                        *)
(***************************************************************************)
\* The verdict of Verify on the entries a package holds, under the chain's
\* secret.
VerdictOn(entries) == Verify([ac EXCEPT !.entries = entries])

\* C32: an evidence package is a consistent snapshot of the chain even when
\* Append runs beside GenerateEvidencePackage: chain_length is the number of
\* audit entries in the package, and chain_valid and broken_at are the
\* verdict of the verification of exactly those entries.
C32_PackageIsSnapshot ==
    (exp.pc = "done" /\ exp.changed = "") =>
        /\ exp.pkg.ChainLength = Len(exp.pkg.AuditEntries)
        /\ exp.pkg.ChainValid = VerdictOn(exp.pkg.AuditEntries).valid
        /\ exp.pkg.ChainBrokenAt = VerdictOn(exp.pkg.AuditEntries).brokenAt

(***************************************************************************)
(* A token budget of 0.                                                    *)
(***************************************************************************)
BudgetSpecInit ==
    /\ ProxyInit({PlainConfig}) /\ ChainInit
    /\ ReplayIdle /\ TrackerIdle /\ BudgetInit /\ ManagerIdle
    /\ StreamIdle /\ VerifyIdle
BudgetSpec == BudgetSpecInit /\ [][BudgetNext]_vars

\* The configuration was given a max_session_tokens of 0, or none.
ZeroBudget(args) == args.file.max_session_tokens \in {{}, {0}}

\* C33: a max_session_tokens of 0 disables the token-budget rule: no
\* session, whatever its total_tokens, triggers token_budget, whether the
\* configuration is built directly or loaded from a file that sets
\* max_session_tokens to 0 or leaves it out.
C33_ZeroDisablesBudget ==
    (call.fn = "checkTokenBudget" /\ call.returned /\ ZeroBudget(call.args))
        => call.result # "token_budget"

(***************************************************************************)
(* The session store under requests served side by side.                   *)
(***************************************************************************)
\* The session a run's request belongs to.
SessionOf(r) == extractSessionID(req[r])

\* C34: through any sequence of requests handled by the proxy every
\* session's total_tokens stays 0, because every response is recorded with
\* 0 tokens; so token_budget never triggers, and the prevention layer reads
\* 0 session tokens for the model downgrade.
C34_TokensStayZero ==
    /\ \A sid \in DOMAIN sessions : sessions[sid].TotalTokens = 0
    /\ \A r \in Runs : loc[r].v # "token_budget"
    /\ \A r \in Runs :
        pc[r] = "prevention" => GetSessionTokens(sessions, SessionOf(r)) = 0

\* A request is about to pass the prevention layer while its session holds
\* the recorded response of another request, in a deployment with a token
\* budget and a model limit.
C34_Witness ==
    /\ cfg.Budgets.MaxSessionTokens > 0
    /\ cfg.Prevention.ModelLimits.Enabled
    /\ \E r, answered \in Runs :
        /\ pc[r] = "prevention"
        /\ SessionOf(r) \in DOMAIN sessions
        /\ pc[answered] = "done"
        /\ loc[answered].resp.StatusCode # 0
        /\ SessionOf(answered) = SessionOf(r)

\* A session as GetOrCreate makes it: nothing recorded.
Fresh(s) ==
    /\ s.PromptHistory = <<>>
    /\ s.ToolCalls = <<>>
    /\ s.ConsecutiveErrors = 0
    /\ s.TotalTokens = 0

\* A step that rejects a request with 429 leaves its session out of the
\* store; a session enters the store only through a GetOrCreate of a
\* request, and fresh; and a rule fires only on what the session holds.
RejectStartsAfresh ==
    /\ \A r \in Runs : Block(r) => SessionOf(r) \notin DOMAIN sessions'
    /\ \A sid \in DOMAIN sessions' \ DOMAIN sessions :
        /\ Fresh(sessions'[sid])
        /\ \E r \in Runs : GetOrCreateStep(r) /\ SessionOf(r) = sid
    /\ \A r \in Runs :
        (EvaluateStep(r) /\ loc'[r].v = "prompt_loop") =>
            Len(sessions[SessionOf(r)].PromptHistory)
                >= cfg.LoopDetection.MaxSimilarPrompts
    /\ \A r \in Runs :
        (EvaluateStep(r) /\ loc'[r].v = "error_spiral") =>
            sessions[SessionOf(r)].ConsecutiveErrors
                >= cfg.RetryProtection.MaxConsecutiveErrors

\* C35: after a request is rejected with 429 by a guardrail its session is
\* absent from the store, and the next request with the same session id
\* starts from a fresh state (no prompt history, no tool timestamps, zero
\* consecutive errors and tokens), so that the rule that fired fires again
\* only once its threshold is reached anew.
C35_RejectedSessionStartsAfresh == [][RejectStartsAfresh]_vars

\* A request was rejected with 429, and a later request of the same
\* session has just been given a session by GetOrCreate.
C35_Witness ==
    \E rejected, r \in Runs :
        /\ pc[rejected] = "done" /\ w[rejected].status = 429
        /\ rejected < r
        /\ pc[r] = "record_request"
        /\ SessionOf(r) = SessionOf(rejected)
        /\ SessionOf(r) \in DOMAIN sessions
        /\ Fresh(sessions[SessionOf(r)])

\* The error count of a session changes in this step.
ErrorsChange(sid) ==
    sessions'[sid].ConsecutiveErrors # sessions[sid].ConsecutiveErrors

\* The step records the response of run r on its session: one more error
\* for a status of 400 or above, none left below 400.
ResponseCounted(r) ==
    /\ RecordResponseStep(r)
    /\ ~loc[r].resp.err
    /\ sessions'[SessionOf(r)].ConsecutiveErrors =
        IF loc[r].resp.StatusCode >= 400
        THEN sessions[SessionOf(r)].ConsecutiveErrors + 1
        ELSE 0

\* An upstream call that fails ends the request with 502 and leaves the
\* session store as it is.
FailedCallLeavesStore ==
    \A r \in Runs :
        (Forward(r) /\ loc'[r].resp.err) =>
            /\ sessions' = sessions
            /\ pc'[r] = "done"
            /\ w'[r].status = 502

\* C36 as stated: a request that ends in an upstream transport failure
\* (502) leaves its session's consecutive_errors unchanged; the count is
\* incremented only by a completed upstream response with a status of 400
\* or above and reset only by a completed one below 400.
C36_TransportFailureLeavesErrors ==
    [][/\ FailedCallLeavesStore
       /\ \A sid \in DOMAIN sessions \cap DOMAIN sessions' :
            ErrorsChange(sid) =>
                \E r \in Runs : /\ SessionOf(r) = sid
                                /\ ResponseCounted(r)
                                /\ loc[r].resp.readOK
                                /\ w[r].status # 502]_vars

\* C36, amended: a request whose upstream call fails before a response
\* arrives (502) leaves its session's consecutive_errors unchanged; the
\* count is incremented only once an upstream response with a status of 400
\* or above has arrived and reset only once one below 400 has arrived,
\* whether or not its body could be read to the end; every response that
\* arrived is counted so while its session exists.
C36_FailedCallLeavesErrors ==
    [][/\ FailedCallLeavesStore
       /\ \A sid \in DOMAIN sessions \cap DOMAIN sessions' :
            ErrorsChange(sid) =>
                \E r \in Runs : SessionOf(r) = sid /\ ResponseCounted(r)
       /\ \A r \in Runs :
            (RecordResponseStep(r) /\ SessionOf(r) \in DOMAIN sessions) =>
                ResponseCounted(r)]_vars

\* A request has ended with 502 on a failed upstream call while its session
\* holds an error count from an earlier response.
C36_Witness ==
    \E r \in Runs :
        /\ pc[r] = "done" /\ loc[r].resp.err /\ w[r].status = 502
        /\ SessionOf(r) \in DOMAIN sessions
        /\ sessions[SessionOf(r)].ConsecutiveErrors >= 1

\* Goroutines calling VerifyAttestation on one evidence package.
VerifySpecInit ==
    /\ ProxyInit({PlainConfig}) /\ ChainInit
    /\ ReplayIdle /\ TrackerIdle /\ CallIdle /\ ManagerIdle
    /\ StreamIdle /\ VerifyInit
VerifySpec == VerifySpecInit /\ [][VerifyNext]_vars

\* No call of VerifyAttestation is between its first and last statement.
VerifiersQuiet == \A i \in Verifiers : va.v[i].pc \in {"idle", "returned"}

\* C37: VerifyAttestation leaves the evidence package as it was given once
\* its calls have returned, and every call, also one that ran alongside
\* other calls on the same package, returns what a call running alone
\* returns.
C37_VerifyIsReadOnly ==
    /\ \A i \in Verifiers :
            va.v[i].pc = "returned" =>
                va.v[i].result = VerifyAttestation(va.given, va.secret)
    /\ VerifiersQuiet => va.pkg = va.given

(***************************************************************************)
(* tokenSimilarity and jaccardSimilarity side by side.                     *)
(***************************************************************************)
BothSimilaritiesSpecInit ==
    /\ ProxyInit({PlainConfig}) /\ ChainInit
    /\ ReplayIdle /\ TrackerIdle /\ BothSimilaritiesInit /\ ManagerIdle
    /\ StreamIdle /\ VerifyIdle
BothSimilaritiesSpec ==
    BothSimilaritiesSpecInit /\ [][BothSimilaritiesNext]_vars

\* C38: the replay engine's tokenSimilarity and the guardrails'
\* jaccardSimilarity return the same value for every pair of texts, empty
\* and whitespace-only ones included.
C38_SimilaritiesAgree ==
    (call.fn = "similarity" /\ call.returned) =>
        SameScore(call.result[1], call.result[2])

\* The two functions agree on every pair but a whitespace-only text against
\* the empty text.
SimilaritiesAgreeElsewhere ==
    (call.fn = "similarity" /\ call.returned) =>
        \/ SameScore(call.result[1], call.result[2])
        \/ /\ <<>> \in {call.args.a, call.args.b}
           /\ {call.args.a, call.args.b} # {<<>>}
           /\ Fields(call.args.a) = <<>> /\ Fields(call.args.b) = <<>>

\* The prompt of run r is in the history of its session.
PromptRecorded(r) ==
    \/ loc[r].prompt = <<>>
    \/ \E i \in DOMAIN sessions[SessionOf(r)].PromptHistory :
            sessions[SessionOf(r)].PromptHistory[i].Text = loc[r].prompt

\* C39: with guardrails and a session store, a request's prompt is recorded
\* in its session and the request is evaluated against that session: its
\* session is there when RecordRequest and Evaluate run, with the prompt in
\* its history at the evaluation, whatever other requests' removals and the
\* sweeper do in between.
C39_DetectionNeverSkipped ==
    [][\A r \in Runs :
        /\ RecordRequestStep(r) => SessionOf(r) \in DOMAIN sessions
        /\ EvaluateStep(r) =>
            /\ SessionOf(r) \in DOMAIN sessions
            /\ PromptRecorded(r)]_vars
====
